---- MODULE Spec2Model ----
(***************************************************************************)
(* Model of mongoose-patch-history (src/src/index.ts): the plugin that     *)
(* records, for every tracked mutation of a document, a Change Record      *)
(* (patch) holding the JSON-patch operations from the document's prior     *)
(* snapshot to its current data view.                                      *)
(*                                                                         *)
(* JSON values are tagged records:                                         *)
(*   [t |-> "s", v |-> string]            a string scalar                  *)
(*   [t |-> "n", v |-> number]            a number scalar                  *)
(*   [t |-> "o", v |-> <<<<key, value>>, ...>>]  an object, keys in order  *)
(*   [t |-> "a", v |-> <<value, ...>>]    an array                         *)
(*   [t |-> "u", v |-> ""]                JavaScript undefined             *)
(* A path string such as "/array/0" is the token sequence                  *)
(* <<"/", "array", "/", "0">>; the empty string is <<>>.                   *)
(***************************************************************************)
EXTENDS Integers, Sequences, FiniteSets, TLC

----------------------------------------------------------------------------
(* JSON values                                                             *)

Str(s) == [t |-> "s", v |-> s]
Num(n) == [t |-> "n", v |-> n]
Obj(pairs) == [t |-> "o", v |-> pairs]
Arr(elems) == [t |-> "a", v |-> elems]
Undefined == [t |-> "u", v |-> ""]
EmptyObj == Obj(<<>>)

IsObj(x) == x.t = "o"
IsArr(x) == x.t = "a"
IsContainer(x) == x.t \in {"o", "a"}

\* The decimal strings of the array indices the model can reach.
IndexStr == <<"0", "1", "2", "3", "4", "5">>

RECURSIVE SeqRange(_)
SeqRange(s) == IF s = <<>> THEN {} ELSE {Head(s)} \cup SeqRange(Tail(s))

\* Object.keys(x): the keys of an object in order, the indices of an array
\* that are not holes (a hole reads as undefined).
ObjectKeys(x) ==
  IF IsObj(x) THEN [i \in 1..Len(x.v) |-> x.v[i][1]]
  ELSE IF IsArr(x)
    THEN SelectSeq([i \in 1..Len(x.v) |-> IndexStr[i]],
                   LAMBDA k : \E i \in 1..Len(x.v) :
                                IndexStr[i] = k /\ x.v[i] # Undefined)
  ELSE <<>>

\* x[key] of JavaScript for objects and arrays; undefined when there is no
\* such own property (and for scalars, whose only properties are characters
\* and length, which no key of the model names).
Lookup(x, key) ==
  IF IsObj(x)
    THEN IF \E i \in 1..Len(x.v) : x.v[i][1] = key
           THEN x.v[CHOOSE i \in 1..Len(x.v) : x.v[i][1] = key][2]
           ELSE Undefined
  ELSE IF IsArr(x)
    THEN IF \E i \in 1..Len(x.v) : IndexStr[i] = key
           THEN x.v[CHOOSE i \in 1..Len(x.v) : IndexStr[i] = key]
           ELSE Undefined
  ELSE Undefined

HasOwn(x, key) == \E i \in 1..Len(ObjectKeys(x)) : ObjectKeys(x)[i] = key

\* x[key] = val, in place: an existing key keeps its position, a new key of
\* an object goes last.
SetKey(x, key, val) ==
  IF IsObj(x)
    THEN IF HasOwn(x, key)
           THEN Obj([i \in 1..Len(x.v) |->
                      IF x.v[i][1] = key THEN <<key, val>> ELSE x.v[i]])
           ELSE Obj(Append(x.v, <<key, val>>))
  ELSE IF IsArr(x)
    THEN Arr([i \in 1..Len(x.v) |-> IF IndexStr[i] = key THEN val ELSE x.v[i]])
  ELSE x

\* Faulty variant of DeleteKey: an array element is spliced out, so the
\* later elements move down.
DeleteKeySplice(x, key) ==
  IF IsObj(x)
    THEN Obj(SelectSeq(x.v, LAMBDA p : p[1] # key))
  ELSE IF IsArr(x)
    THEN Arr([i \in 1..(Len(x.v) - 1) |->
               IF \E j \in 1..i : IndexStr[j] = key THEN x.v[i + 1] ELSE x.v[i]])
  ELSE x

\* delete x[key]: removes the key of an object, leaves a hole in an array.
DeleteKey(x, key) ==
  IF IsObj(x)
    THEN Obj(SelectSeq(x.v, LAMBDA p : p[1] # key))
  ELSE IF IsArr(x)
    THEN Arr([i \in 1..Len(x.v) |->
               IF IndexStr[i] = key THEN Undefined ELSE x.v[i]])
  ELSE x

----------------------------------------------------------------------------
(* Path model                                                              *)

ARRAY_INDEX_WILDCARD == "*"

\* String.prototype.split('/') on a token sequence.
RECURSIVE SplitSlash(_)
SplitSlash(s) ==
  IF s = <<>> THEN <<"">>
  ELSE IF Head(s) = "/" THEN <<"">> \o SplitSlash(Tail(s))
  ELSE IF Tail(s) = <<>> THEN <<Head(s)>>
  ELSE IF Head(Tail(s)) = "/" THEN <<Head(s)>> \o SplitSlash(Tail(Tail(s)))
  ELSE <<Head(s)>> \o SplitSlash(Tail(s))

\* path.replace(/^\//, '').split('/')
getArrayFromPath(path) ==
  SplitSlash(IF path # <<>> /\ Head(path) = "/" THEN Tail(path) ELSE path)

sanitizeEmptyPath(path) ==
  IF Len(path) = 1 /\ path[1] = "" THEN <<>> ELSE path

entryIsIdentical(entry1, entry2) == entry1 = entry2

isArrayIndexWildcard(entry) == entry = ARRAY_INDEX_WILDCARD

\* Number.isInteger(Number(entry)) && Number(entry) >= 0; Number('') is 0.
isIntegerGreaterEqual0(entry) == entry \in SeqRange(IndexStr) \cup {""}

matchesArrayWildcard(entry1, entry2) ==
  isArrayIndexWildcard(entry1) /\ isIntegerGreaterEqual0(entry2)

\* fractionPath.every(...): fullPath[idx] is undefined past the end of
\* fullPath, and undefined is neither identical to a segment nor an integer.
isPathContained(fractionPath, fullPath) ==
  \A idx \in 1..Len(fractionPath) :
    /\ idx <= Len(fullPath)
    /\ \/ entryIsIdentical(fractionPath[idx], fullPath[idx])
       \/ matchesArrayWildcard(fractionPath[idx], fullPath[idx])

----------------------------------------------------------------------------
(* Diff engine: jsonpatch.compare of fast-json-patch, as createPatch calls *)
(* it on two normalized snapshots.                                         *)

BothContainersOfOneKind(a, b) ==
  IsContainer(a) /\ IsContainer(b) /\ IsArr(a) = IsArr(b)

RECURSIVE Generate(_, _, _)
RECURSIVE GenerateOld(_, _, _, _)
RECURSIVE GenerateOldAscending(_, _, _, _)

\* Faulty variant of GenerateOld: the old keys are visited first key first.
GenerateOldAscending(mirror, obj, path, t) ==
  IF t = 0 THEN <<>>
  ELSE
    LET key == ObjectKeys(mirror)[t]
        oldVal == Lookup(mirror, key)
        newVal == Lookup(obj, key)
        here ==
          IF HasOwn(obj, key)
            THEN IF BothContainersOfOneKind(oldVal, newVal)
                   THEN Generate(oldVal, newVal, path \o <<"/", key>>)
                   ELSE IF oldVal # newVal
                          THEN << [op |-> "replace",
                                   path |-> path \o <<"/", key>>,
                                   value |-> newVal] >>
                          ELSE <<>>
            ELSE << [op |-> "remove", path |-> path \o <<"/", key>>] >>
    IN GenerateOldAscending(mirror, obj, path, t - 1) \o here

\* The loop over the old keys, last key first: recurse into a container kept
\* as a container of the same kind, replace a changed value, remove a key
\* that is gone.
GenerateOld(mirror, obj, path, t) ==
  IF t = 0 THEN <<>>
  ELSE
    LET key == ObjectKeys(mirror)[t]
        oldVal == Lookup(mirror, key)
        newVal == Lookup(obj, key)
        here ==
          IF HasOwn(obj, key)
            THEN IF BothContainersOfOneKind(oldVal, newVal)
                   THEN Generate(oldVal, newVal, path \o <<"/", key>>)
                   ELSE IF oldVal # newVal
                          THEN << [op |-> "replace",
                                   path |-> path \o <<"/", key>>,
                                   value |-> newVal] >>
                          ELSE <<>>
            ELSE << [op |-> "remove", path |-> path \o <<"/", key>>] >>
    IN here \o GenerateOld(mirror, obj, path, t - 1)

\* The loop over the new keys, in order: add every key the mirror lacks.
GenerateNew(mirror, obj, path) ==
  LET newKeys == ObjectKeys(obj)
      added == SelectSeq(newKeys, LAMBDA key : ~HasOwn(mirror, key))
  IN [i \in 1..Len(added) |->
        [op |-> "add", path |-> path \o <<"/", added[i]>>,
         value |-> Lookup(obj, added[i])]]

Generate(mirror, obj, path) ==
  LET oldKeys == ObjectKeys(mirror)
      newKeys == ObjectKeys(obj)
      deleted == \E t \in 1..Len(oldKeys) : ~HasOwn(obj, oldKeys[t])
  IN GenerateOld(mirror, obj, path, Len(oldKeys)) \o
       (IF ~deleted /\ Len(newKeys) = Len(oldKeys)
          THEN <<>>
          ELSE GenerateNew(mirror, obj, path))

compare(tree1, tree2) == Generate(tree1, tree2, <<>>)

----------------------------------------------------------------------------
(* Exclusion filter                                                        *)

\* The walk of deepRemovePath through the operation's value along the rest
\* of the exclude path, with the deletions it makes in place. `rest` is the
\* exclude path from the position the loop starts at; its last entry is
\* lastKey. A wildcard entry met at an array prunes every element from a
\* fresh start ({op: 'add', path: '/', value: elem}).
RECURSIVE PruneValue(_, _)
PruneValue(value, rest) ==
  IF Len(rest) = 1
    THEN IF Lookup(value, rest[1]) = Undefined
           THEN value
           ELSE DeleteKey(value, rest[1])
  ELSE IF rest[1] = ARRAY_INDEX_WILDCARD /\ IsArr(value)
    THEN Arr([k \in 1..Len(value.v) |-> PruneValue(value.v[k], Tail(rest))])
  ELSE IF Lookup(value, rest[1]) = Undefined
    THEN value
  ELSE SetKey(value, rest[1],
              PruneValue(Lookup(value, rest[1]), Tail(rest)))

\* Where the outer call of deepRemovePath leaves its walk: "wild" in the
\* wildcard branch, "undef" at a missing intermediate key, "nokey" at a
\* missing last key, "deleted" after deleting the last key.
RECURSIVE WalkExit(_, _)
WalkExit(value, rest) ==
  IF Len(rest) = 1
    THEN IF Lookup(value, rest[1]) = Undefined THEN "nokey" ELSE "deleted"
  ELSE IF rest[1] = ARRAY_INDEX_WILDCARD /\ IsArr(value)
    THEN "wild"
  ELSE IF Lookup(value, rest[1]) = Undefined
    THEN "undef"
  ELSE WalkExit(Lookup(value, rest[1]), Tail(rest))

OpValue(patch) == IF "value" \in DOMAIN patch THEN patch.value ELSE Undefined

WithValue(patch, value) ==
  IF "value" \in DOMAIN patch
    THEN [patch EXCEPT !.value = value]
    ELSE patch

\* deepRemovePath(patch, excludePath): the boolean it returns and the
\* operation as its in-place deletions leave it.
deepRemovePath(patch, excludePath) ==
  LET operationPath == sanitizeEmptyPath(getArrayFromPath(patch.path))
      n == Len(excludePath)
      from == IF Len(operationPath) + 1 < n THEN Len(operationPath) + 1 ELSE n
      rest == SubSeq(excludePath, from, n)
      value == OpValue(patch)
  IN IF ~isPathContained(operationPath, excludePath)
       THEN [keep |-> TRUE, patch |-> patch]
       ELSE LET pruned == PruneValue(value, rest)
                exit == WalkExit(value, rest)
            IN [keep |-> IF exit \in {"wild", "deleted"}
                           THEN Len(ObjectKeys(pruned)) # 0
                           ELSE TRUE,
                patch |-> WithValue(patch, pruned)]

\* options.excludes.every(exclude => deepRemovePath(op, exclude)): stops at
\* the first pattern that returns false.
RECURSIVE everyDeepRemove(_, _)
everyDeepRemove(patch, excludes) ==
  IF excludes = <<>> THEN [keep |-> TRUE, patch |-> patch]
  ELSE LET r == deepRemovePath(patch, Head(excludes))
       IN IF r.keep THEN everyDeepRemove(r.patch, Tail(excludes)) ELSE r

\* Faulty variant of filterOp: the whole-operation exclusion is missing and
\* only the deep removal runs.
filterOpDeepOnly(patch, excludes) == everyDeepRemove(patch, excludes)

\* The predicate of ops.filter in createPatch, with the operation as the
\* deep removal leaves it.
filterOp(patch, excludes) ==
  LET pathArray == getArrayFromPath(patch.path)
  IN IF \E i \in 1..Len(excludes) : isPathContained(excludes[i], pathArray)
       THEN [keep |-> FALSE, patch |-> patch]
       ELSE everyDeepRemove(patch, excludes)

RECURSIVE filterOps(_, _)
filterOps(ops, excludes) ==
  IF ops = <<>> THEN <<>>
  ELSE LET r == filterOp(Head(ops), excludes)
       IN (IF r.keep THEN <<r.patch>> ELSE <<>>) \o
            filterOps(Tail(ops), excludes)

\* Whether `delete value[lastKey]` at the end of the walk raises a
\* TypeError. The module is strict code, where deleting a property that is
\* not configurable throws: an index or the length of a string, the length
\* of an array. A string of the model has one character, so that its
\* index 0 reads as the string itself; its length reads as a number, which
\* has no further properties.
RECURSIVE deleteThrows(_, _)
deleteThrows(value, rest) ==
  IF Len(rest) = 1
    THEN \/ value.t = "s" /\ rest[1] \in {"0", "length"}
         \/ IsArr(value) /\ rest[1] = "length"
  ELSE IF rest[1] = ARRAY_INDEX_WILDCARD /\ IsArr(value)
    THEN \E k \in 1..Len(value.v) : deleteThrows(value.v[k], Tail(rest))
  ELSE IF value.t = "s"
    THEN rest[1] = "0" /\ deleteThrows(value, Tail(rest))
  ELSE IF Lookup(value, rest[1]) = Undefined
    THEN FALSE
  ELSE deleteThrows(Lookup(value, rest[1]), Tail(rest))

\* Whether the call deepRemovePath(patch, excludePath) throws.
deepRemovePathThrows(patch, excludePath) ==
  LET operationPath == sanitizeEmptyPath(getArrayFromPath(patch.path))
      n == Len(excludePath)
      from == IF Len(operationPath) + 1 < n THEN Len(operationPath) + 1 ELSE n
  IN /\ isPathContained(operationPath, excludePath)
     /\ deleteThrows(OpValue(patch), SubSeq(excludePath, from, n))

\* Whether options.excludes.every(...) throws: at the first pattern whose
\* deep removal throws, unless an earlier pattern returned false.
RECURSIVE everyDeepRemoveThrows(_, _)
everyDeepRemoveThrows(patch, excludes) ==
  IF excludes = <<>> THEN FALSE
  ELSE IF deepRemovePathThrows(patch, Head(excludes)) THEN TRUE
  ELSE LET r == deepRemovePath(patch, Head(excludes))
       IN r.keep /\ everyDeepRemoveThrows(r.patch, Tail(excludes))

\* Whether ops.filter(...) of createPatch throws instead of returning a
\* list: some operation that is not excluded as a whole reaches a throwing
\* deep removal.
filterOpsThrows(ops, excludes) ==
  \E i \in 1..Len(ops) :
    /\ ~\E k \in 1..Len(excludes) :
          isPathContained(excludes[k], getArrayFromPath(ops[i].path))
    /\ everyDeepRemoveThrows(ops[i], excludes)

\* The operations createPatch records for a prior snapshot and a current
\* data view: the comparison, copied to PatchOperations, then filtered when
\* exclude patterns are configured.
\* Faulty variant of copyOps: every operation is given a value.
copyOpsWithValue(compareResult) ==
  [i \in 1..Len(compareResult) |->
     [op |-> compareResult[i].op,
      path |-> compareResult[i].path,
      value |-> OpValue(compareResult[i])]]

copyOps(compareResult) ==
  [i \in 1..Len(compareResult) |->
     IF "value" \in DOMAIN compareResult[i]
       THEN IF "from" \in DOMAIN compareResult[i]
              THEN [op |-> compareResult[i].op,
                    path |-> compareResult[i].path,
                    value |-> compareResult[i].value,
                    from |-> compareResult[i].from]
              ELSE [op |-> compareResult[i].op,
                    path |-> compareResult[i].path,
                    value |-> compareResult[i].value]
     ELSE IF "from" \in DOMAIN compareResult[i]
       THEN [op |-> compareResult[i].op,
             path |-> compareResult[i].path,
             from |-> compareResult[i].from]
     ELSE [op |-> compareResult[i].op,
           path |-> compareResult[i].path]]

filterWhenExcluding(ops, excludes) ==
  IF Len(excludes) > 0 THEN filterOps(ops, excludes) ELSE ops

patchOps(original, current, excludes) ==
  filterWhenExcluding(
    copyOps(compare(IF original = Undefined THEN EmptyObj ELSE original,
                    current)),
    excludes)

----------------------------------------------------------------------------
(* Documents, the store and the plugin's options                           *)

VARIABLES
  options,      \* the resolved plugin options: excludes, removePatches
  store,        \* the documents of the collection, in natural order
  patches,      \* the Change Records of the patch collection, in creation order
  nextId,       \* the next document identity the driver generates
  nextPatchId,  \* the next Change Record identity
  inst,         \* the document instance the application holds in memory
  q,            \* the query of the conditional update in flight
  ev,           \* what the last operation did, once completed (history variable)
  nops,         \* the number of operations completed or started
  fx,           \* an operation list on its way through the exclusion filter
  dx,           \* two snapshots on their way through the diff engine and back
  session,      \* the transaction of the caller's session, when one is open
  px,           \* an input on its way through a path or conditions helper
  tl,           \* the clock, a document's timestamps and its records' dates
  peer          \* the query of another caller's conditional update in flight

vars ==
  <<options, store, patches, nextId, nextPatchId, inst, q, ev, nops, fx, dx,
    session, px, tl, peer>>

\* The number of mutations a run performs.
MaxOps == 1

VERSION_KEY == "__v"

\* A stored document: _id first, the schema's fields, the version key.
MkDoc(id, view) ==
  Obj(<< <<"_id", Num(id)>> >> \o view.v \o << <<VERSION_KEY, Num(0)>> >>)

IdOf(doc) == Lookup(doc, "_id").v

\* schema.methods.data: toObject without the version key, with _id deleted
\* by the transform (the schema of the model sets no timestamps).
data(doc) == Obj(SelectSeq(doc.v, LAMBDA p : p[1] \notin {"_id", VERSION_KEY}))

\* JSON.parse(JSON.stringify(obj)): a key whose value is undefined is
\* dropped from an object.
RECURSIVE toJSON(_)
toJSON(x) ==
  IF IsObj(x)
    THEN LET kept == SelectSeq(x.v, LAMBDA p : p[2] # Undefined)
         IN Obj([i \in 1..Len(kept) |-> <<kept[i][1], toJSON(kept[i][2])>>])
  ELSE IF IsArr(x)
    THEN Arr([i \in 1..Len(x.v) |-> toJSON(x.v[i])])
  ELSE x

\* Faulty variant of snapshot: the whole document is kept, not its data view.
snapshotWhole(doc) == toJSON(doc)

\* The snapshot taken after init and after save.
snapshot(doc) == toJSON(data(doc))

\* An element of the schema's array that carries an excluded property.
HiddenElem ==
  Obj(<< <<"hiddenProperty", Str("h")>>, <<"property", Str("v")>> >>)

\* The data a document is created with.
Views ==
  { Obj(<< <<"title", Str("a")>> >>),
    Obj(<< <<"title", Str("b")>> >>),
    Obj(<< <<"title", Str("a")>>, <<"array", Arr(<<>>)>> >>) }

\* Match conditions: equality on top-level fields; {} matches every document.
Conditions ==
  { EmptyObj,
    Obj(<< <<"title", Str("a")>> >>),
    Obj(<< <<"title", Str("b")>> >>) }

\* Update expressions: a direct field assignment, a $set and a $push.
Updates ==
  { Obj(<< <<"title", Str("b")>> >>),
    Obj(<< <<"$set", Obj(<< <<"hidden", Str("h")>> >>)>> >>),
    Obj(<< <<"$push", Obj(<< <<"array", HiddenElem>> >>)>> >>) }

\* The keys of the model that contain a '$'.
DollarKeys == {"$set", "$push", "$or"}

\* The exclude option strings of a tracked schema.
ExcludeStrings ==
  << <<"/", "hidden">>, <<"/", "array", "/", "*", "/", "hiddenProperty">> >>

\* options as the plugin resolves them: excludes mapped by getArrayFromPath.
ResolvedOptions(excludes, removePatches) ==
  [excludes |-> [i \in 1..Len(excludes) |-> getArrayFromPath(excludes[i])],
   removePatches |-> removePatches,
   trackOriginalValue |-> FALSE]

\* The same with trackOriginalValue set.
TrackingOptions(excludes) ==
  [ResolvedOptions(excludes, TRUE) EXCEPT !.trackOriginalValue = TRUE]

TrackConfigs == {TrackingOptions(<<>>), TrackingOptions(ExcludeStrings)}

Configs ==
  { ResolvedOptions(<<>>, TRUE),
    ResolvedOptions(ExcludeStrings, TRUE),
    ResolvedOptions(<<>>, FALSE) }

\* model.find(conditions): the documents whose fields equal the conditions,
\* in natural order.
Matches(doc, conditions) ==
  \A i \in 1..Len(conditions.v) :
    Lookup(doc, conditions.v[i][1]) = conditions.v[i][2]

find(docs, conditions) == SelectSeq(docs, LAMBDA d : Matches(d, conditions))

\* model.findOne(conditions): the first match, or undefined (null).
findOne(docs, conditions) ==
  IF find(docs, conditions) = <<>> THEN Undefined
  ELSE Head(find(docs, conditions))

ById(id) == Obj(<< <<"_id", Num(id)>> >>)

\* model.find({_id: {$in: ids}})
findIn(docs, ids) == SelectSeq(docs, LAMBDA d : IdOf(d) \in SeqRange(ids))

----------------------------------------------------------------------------
(* createPatch                                                             *)

\* The Change Records after createPatch(document): nothing is added when no
\* operation is left, else one record with the document's _id as ref.
\* Faulty variant of createUnlessEmpty: the early return on an empty
\* operation list is missing.
createAlways(pats, pid, ref, ops) ==
  Append(pats, [_id |-> pid, ref |-> ref, ops |-> ops])

\* The end of createPatch: return without a record when no operation is
\* left, else create the record.
createUnlessEmpty(pats, pid, ref, ops) ==
  IF Len(ops) = 0
    THEN pats
    ELSE Append(pats, [_id |-> pid, ref |-> ref, ops |-> ops])

\* get(object, path) of lodash on the keys of a path: the value there,
\* undefined when a key is missing on the way or the object is undefined.
RECURSIVE get(_, _)
get(object, keys) ==
  IF keys = <<>> THEN object
  ELSE get(Lookup(object, Head(keys)), Tail(keys))

\* get(document.isNew ? {} : document._original,
\*     tail(entry.path.split('/')).join('.')): split yields an empty string
\* before the first key, tail drops it; a new document has no _original.
originalValueOf(op, original) ==
  get(original, Tail(SplitSlash(op.path)))

\* The operations with their originalValue when trackOriginalValue is set.
trackOriginalValue(ops, original, opts) ==
  IF opts.trackOriginalValue
    THEN [i \in 1..Len(ops) |->
            ops[i] @@ [originalValue |->
                         originalValueOf(ops[i], original)]]
    ELSE ops

createPatch(pats, pid, ref, original, current, opts) ==
  createUnlessEmpty(pats, pid, ref,
                    trackOriginalValue(patchOps(original, toJSON(current),
                                                opts.excludes),
                                       original, opts))

\* The Change Records a list of freshly created documents leaves behind.
RECURSIVE createdPatches(_, _, _)
createdPatches(docs, pats, opts) ==
  IF docs = <<>> THEN pats
  ELSE createdPatches(Tail(docs),
         createPatch(pats, Len(pats) + 1, IdOf(Head(docs)), Undefined,
                     data(Head(docs)), opts),
         opts)

----------------------------------------------------------------------------
(* The store's side of a conditional update (MongoDB through Mongoose)     *)

RECURSIVE ObjectAssign(_, _)
\* Object.assign(target, source) on the pairs of source, in order.
ObjectAssign(target, pairs) ==
  IF pairs = <<>> THEN target
  ELSE ObjectAssign(SetKey(target, Head(pairs)[1], Head(pairs)[2]), Tail(pairs))

\* $push of one element: the array is created when the field is missing.
PushField(doc, key, elem) ==
  IF Lookup(doc, key) = Undefined
    THEN SetKey(doc, key, Arr(<<elem>>))
    ELSE SetKey(doc, key, Arr(Append(Lookup(doc, key).v, elem)))

RECURSIVE PushAll(_, _)
PushAll(doc, pairs) ==
  IF pairs = <<>> THEN doc
  ELSE PushAll(PushField(doc, Head(pairs)[1], Head(pairs)[2]), Tail(pairs))

PairsOf(x) == IF IsObj(x) THEN x.v ELSE <<>>

\* The document after the store applies an update expression: top-level
\* fields and $set assign, $push appends.
applyUpdate(doc, update) ==
  LET direct == SelectSeq(update.v, LAMBDA p : p[1] \notin DollarKeys)
      set == PairsOf(Lookup(update, "$set"))
      push == PairsOf(Lookup(update, "$push"))
  IN PushAll(ObjectAssign(ObjectAssign(doc, direct), set), push)

\* The top-level paths an update expression modifies.
modifiedPaths(update) ==
  ObjectKeys(Obj(SelectSeq(update.v, LAMBDA p : p[1] \notin DollarKeys)))
    \o ObjectKeys(Lookup(update, "$set"))
    \o ObjectKeys(Lookup(update, "$push"))

\* The identities the update modifies: the first match of a single update,
\* every match of updateMany.
updateTargets(docs, query) ==
  LET found == find(docs, query._conditions)
      ids == [i \in 1..Len(found) |-> IdOf(found[i])]
  IN IF query.kind = "updateMany" \/ ids = <<>> THEN ids ELSE <<Head(ids)>>

\* The document an upsert inserts: the equality fields of the conditions
\* with the update applied.
upsertedDoc(id, query) ==
  MkDoc(id, applyUpdate(query._conditions, query._update))

\* The collection after the store executes the update.
executeUpdate(docs, query, id) ==
  LET targets == updateTargets(docs, query)
  IN IF targets = <<>>
       THEN IF query.upsert THEN Append(docs, upsertedDoc(id, query)) ELSE docs
       ELSE [i \in 1..Len(docs) |->
               IF IdOf(docs[i]) \in SeqRange(targets)
                 THEN applyUpdate(docs[i], query._update)
                 ELSE docs[i]]

\* What the store hands the post hook: updateOne and updateMany resolve to
\* an UpdateResult, findOneAndUpdate to the document (or null), or to a
\* ModifyResult under includeResultMetadata.
updateResult(docs, query) ==
  LET targets == updateTargets(docs, query)
      upserted == IF targets = <<>> /\ query.upsert THEN 1 ELSE 0
  IN IF query.kind \in {"updateOne", "updateMany"}
       THEN Obj(<< <<"matchedCount", Num(Len(targets))>>,
                   <<"upsertedCount", Num(upserted)>> >>)
     ELSE IF query.includeResultMetadata
       THEN Obj(<< <<"lastErrorObject",
                     Obj(<< <<"n", Num(IF targets = <<>> THEN upserted ELSE 1)>> >>)>>,
                   <<"value", findOne(docs, query._conditions)>> >>)
     ELSE findOne(docs, query._conditions)

----------------------------------------------------------------------------
(* The update hooks                                                        *)

IdleQuery ==
  [pc |-> "idle", kind |-> "", _conditions |-> EmptyObj, _update |-> EmptyObj,
   upsert |-> FALSE, includeResultMetadata |-> FALSE,
   _originalId |-> Undefined, _original |-> Undefined,
   _originalIds |-> <<>>, _originals |-> <<>>,
   result |-> Undefined, before |-> <<>>, targets |-> <<>>, upserted |-> 0]

NewQuery(kind, conditions, update, upsert, meta) ==
  [IdleQuery EXCEPT !.kind = kind, !._conditions = conditions,
                    !._update = update, !.upsert = upsert,
                    !.includeResultMetadata = meta]

\* Faulty variant of preUpdateOne: the result of the lookup is not retained.
preUpdateOneForgets(query, docs) == query

preUpdateOne(query, docs) ==
  LET original == findOne(docs, query._conditions)
  IN IF original # Undefined
       THEN [query EXCEPT !._originalId = Lookup(original, "_id"),
                          !._original = toJSON(data(original))]
       ELSE query

preUpdateMany(query, docs) ==
  LET originals == find(docs, query._conditions)
  IN [query EXCEPT
        !._originalIds = [i \in 1..Len(originals) |-> IdOf(originals[i])],
        !._originals = [i \in 1..Len(originals) |-> toJSON(data(originals[i]))]]

\* modifyResult?.lastErrorObject?.n === 0 && modifyResult?.upsertedCount === 0
noMatchNoUpsert(result) ==
  /\ Lookup(Lookup(result, "lastErrorObject"), "n") = Num(0)
  /\ Lookup(result, "upsertedCount") = Num(0)

mergeQueryConditionsWithUpdate(_conditions, _update) ==
  LET update == IF _update = Undefined THEN _update
                ELSE IF Lookup(_update, "$set") # Undefined
                  THEN Lookup(_update, "$set")
                ELSE _update
      conditions == ObjectAssign(ObjectAssign(EmptyObj, _conditions.v),
                                 PairsOf(update))
  IN Obj(SelectSeq(conditions.v, LAMBDA p : p[1] \notin DollarKeys))

\* Faulty variant of postUpdateOneConditions: the captured identity is
\* ignored and the lookup always goes by the merged conditions.
postUpdateOneConditionsMerged(query) ==
  mergeQueryConditionsWithUpdate(query._conditions, query._update)

\* The conditions postUpdateOne looks the affected document up by.
postUpdateOneConditions(query) ==
  IF query._originalId # Undefined
    THEN Obj(<< <<"_id", query._originalId>> >>)
    ELSE mergeQueryConditionsWithUpdate(query._conditions, query._update)

\* The Change Records after postUpdateOne.
postUpdateOne(query, docs, pats, pid, opts) ==
  IF noMatchNoUpsert(query.result) THEN pats
  ELSE LET doc == findOne(docs, postUpdateOneConditions(query))
       IN IF doc # Undefined
            THEN createPatch(pats, pid, IdOf(doc), query._original,
                             data(doc), opts)
            ELSE pats

\* Faulty variant of postUpdateManyDocs: the captured identities are ignored
\* and the documents are always resolved by the merged conditions.
postUpdateManyDocsMerged(query, docs) ==
  find(docs, mergeQueryConditionsWithUpdate(query._conditions, query._update))

\* The documents postUpdateMany resolves.
postUpdateManyDocs(query, docs) ==
  IF Len(query._originalIds) > 0
    THEN findIn(docs, query._originalIds)
    ELSE find(docs, mergeQueryConditionsWithUpdate(query._conditions,
                                                   query._update))

\* this._originals?.[i]
originalAt(query, i) ==
  IF i <= Len(query._originals) THEN query._originals[i] ELSE Undefined

RECURSIVE createPatchEach(_, _, _, _, _, _)
\* docs.map((doc, i) => createPatch(doc with _original = _originals[i]));
\* the record created for pats gets the identity base + Len(pats).
createPatchEach(query, docs, i, pats, base, opts) ==
  IF i > Len(docs) THEN pats
  ELSE createPatchEach(query, docs, i + 1,
                       createPatch(pats, base + Len(pats), IdOf(docs[i]),
                                   originalAt(query, i), data(docs[i]), opts),
                       base, opts)

\* The Change Records after postUpdateMany.
postUpdateMany(query, docs, pats, pid, opts) ==
  IF noMatchNoUpsert(query.result) THEN pats
  ELSE createPatchEach(query, postUpdateManyDocs(query, docs), 1, pats,
                       pid - Len(pats), opts)

\* deletePatches(document): every Change Record of the document is deleted.
deletePatches(pats, id) == SelectSeq(pats, LAMBDA p : p.ref # id)

----------------------------------------------------------------------------
(* rollback                                                                *)

\* this.patches.find({ref}).sort({date: 1}): the document's Change Records,
\* oldest first.
findPatches(pats, ref) == SelectSeq(pats, LAMBDA r : r.ref = ref)

\* Faulty variant of includesPatch: every id passes for a known one.
includesAny(found, patchId) == TRUE

\* patchIds.includes(patchId.toString())
includesPatch(found, patchId) ==
  \E i \in 1..Len(found) : found[i]._id = patchId

\* dropRightWhile(patches, patch => patch._id !== patchId): the records up to
\* and including the last one with that id; none when no record has it.
RECURSIVE dropRightWhile(_, _)
dropRightWhile(found, patchId) ==
  IF found = <<>> THEN <<>>
  ELSE IF found[Len(found)]._id # patchId
    THEN dropRightWhile(SubSeq(found, 1, Len(found) - 1), patchId)
  ELSE found

\* Faulty variant of toLatest: the test for the latest record is missing.
toLatestNever(found, apply) == FALSE

\* patches.length === apply.length
toLatest(found, apply) == Len(found) = Len(apply)

\* hasUndefined(value) of the operation validator.
RECURSIVE hasUndefined(_)
hasUndefined(x) ==
  IF x.t = "u" THEN TRUE
  ELSE IF IsObj(x) THEN \E i \in 1..Len(x.v) : hasUndefined(x.v[i][2])
  ELSE IF IsArr(x) THEN \E i \in 1..Len(x.v) : hasUndefined(x.v[i])
  ELSE FALSE

Failed == [ok |-> FALSE, doc |-> Undefined]

Applied(doc) == [ok |-> TRUE, doc |-> doc]

IsIndex(key) == \E i \in 1..Len(IndexStr) : IndexStr[i] = key

\* The zero-based array index a decimal string names.
IndexOf(key) == (CHOOSE i \in 1..Len(IndexStr) : IndexStr[i] = key) - 1

\* arrOps and objOps of jsonpatch on the container that holds the last key,
\* under validation: add inserts into an array (not past its end) or assigns
\* the key of an object; replace and remove need the key to exist.
applyLast(obj, key, op) ==
  IF IsArr(obj)
    THEN IF ~IsIndex(key) THEN Failed
         ELSE IF op.op = "add"
           THEN IF IndexOf(key) > Len(obj.v) THEN Failed
                ELSE Applied(Arr(SubSeq(obj.v, 1, IndexOf(key))
                                   \o <<op.value>>
                                   \o SubSeq(obj.v, IndexOf(key) + 1, Len(obj.v))))
         ELSE IF Lookup(obj, key).t = "u" THEN Failed
         ELSE IF op.op = "replace" THEN Applied(SetKey(obj, key, op.value))
         ELSE Applied(Arr(SubSeq(obj.v, 1, IndexOf(key))
                            \o SubSeq(obj.v, IndexOf(key) + 2, Len(obj.v))))
  ELSE IF op.op = "add" THEN Applied(SetKey(obj, key, op.value))
  ELSE IF Lookup(obj, key).t = "u" THEN Failed
  ELSE IF op.op = "replace" THEN Applied(SetKey(obj, key, op.value))
  ELSE Applied(DeleteKey(obj, key))

\* The walk of applyOperation down the path: every key before the last has
\* to name an existing container, an array is entered by an index.
RECURSIVE applyAt(_, _, _)
putBack(obj, key, res) ==
  IF res.ok THEN Applied(SetKey(obj, key, res.doc)) ELSE Failed

applyAt(obj, segs, op) ==
  IF ~IsContainer(obj) THEN Failed
  ELSE IF Len(segs) = 1 THEN applyLast(obj, segs[1], op)
  ELSE IF IsArr(obj) /\ ~IsIndex(segs[1]) THEN Failed
  ELSE putBack(obj, segs[1], applyAt(Lookup(obj, segs[1]), Tail(segs), op))

\* jsonpatch.applyOperation(document, operation, true): the validator
\* rejects an add or replace without a value or with an undefined inside
\* it; an operation on the root replaces or clears the document.
applyOperation(doc, op) ==
  IF op.op \in {"add", "replace"} /\ hasUndefined(OpValue(op)) THEN Failed
  ELSE IF sanitizeEmptyPath(getArrayFromPath(op.path)) = <<>>
    THEN IF op.op = "remove" THEN Applied(Undefined) ELSE Applied(op.value)
  ELSE applyAt(doc, sanitizeEmptyPath(getArrayFromPath(op.path)), op)

\* jsonpatch.applyPatch(state, ops, true): the operations in order, the
\* first invalid one throws.
RECURSIVE applyPatch(_, _)
applyNext(res, ops) == IF res.ok THEN applyPatch(res.doc, ops) ELSE Failed

applyPatch(doc, ops) ==
  IF ops = <<>> THEN Applied(doc)
  ELSE applyNext(applyOperation(doc, Head(ops)), Tail(ops))

\* apply.forEach(patch => jsonpatch.applyPatch(state, patch.ops, true))
RECURSIVE applyEach(_, _)
\* Faulty variant of applyRest: a record that cannot be applied is skipped
\* together with what came before it.
applyRestLenient(res, apply) ==
  IF res.ok THEN applyEach(res.doc, apply) ELSE applyEach(EmptyObj, apply)

applyRest(res, apply) == IF res.ok THEN applyEach(res.doc, apply) ELSE Failed

applyEach(state, apply) ==
  IF apply = <<>> THEN Applied(state)
  ELSE applyRest(applyPatch(state, Head(apply).ops), Tail(apply))

\* merge(object, source) of lodash: the keys of source are merged into
\* object, containers of one kind recursively, and the value of source
\* stands wherever both hold a key.
RECURSIVE merge(_, _)
mergeValue(objValue, srcValue) ==
  IF BothContainersOfOneKind(objValue, srcValue)
    THEN merge(objValue, srcValue)
    ELSE srcValue

merge(object, source) ==
  IF IsObj(source)
    THEN LET step[n \in 0..Len(source.v)] ==
               IF n = 0 THEN object
               ELSE SetKey(step[n - 1], source.v[n][1],
                           mergeValue(Lookup(step[n - 1], source.v[n][1]),
                                      source.v[n][2]))
         IN step[Len(source.v)]
  ELSE Arr([i \in 1..(IF Len(source.v) > Len(object.v) THEN Len(source.v)
                      ELSE Len(object.v)) |->
             IF i > Len(source.v) THEN object.v[i]
             ELSE IF i > Len(object.v) THEN source.v[i]
             ELSE mergeValue(object.v[i], source.v[i])])

\* merge(data, state), the argument of this.set.
mergedForSet(dataArg, state) == merge(dataArg, state)

\* this.set(object): every key of the object is set on the document; the
\* document's other paths are left as they are.
set(doc, object) == ObjectAssign(doc, object.v)

\* The paths this.set marks modified: the keys whose value changes.
setPaths(doc, object) ==
  SelectSeq(ObjectKeys(object), LAMBDA k : Lookup(object, k) # Lookup(doc, k))

\* Faulty variant of persists: the document is saved whatever the flag.
persistsAlways(save) == TRUE

\* if (save) this.save() else resolve(this)
persists(save) == save

\* The override arguments of rollback.
Overrides == {EmptyObj, Obj(<< <<"title", Str("c")>> >>)}

\* The rejection of rollback, "none" when it goes on to set the document.
rollbackError(found, patchId) ==
  IF ~includesPatch(found, patchId) THEN "UnknownPatch"
  ELSE IF toLatest(found, dropRightWhile(found, patchId)) THEN "NoOpRollback"
  ELSE IF ~applyEach(EmptyObj, dropRightWhile(found, patchId)).ok
    THEN "PatchError"
  ELSE "none"

\* The document after this.set(merge(data, state)).
rolledBack(doc, found, patchId, dataArg) ==
  set(doc, mergedForSet(dataArg,
                        applyEach(EmptyObj, dropRightWhile(found, patchId)).doc))

----------------------------------------------------------------------------
(* State machine                                                           *)

NoInstance == [doc |-> Undefined, _original |-> Undefined]

\* No operation list is in the exclusion filter.
NoFilter == [pc |-> "none", ops |-> <<>>, deep |-> <<>>, out |-> <<>>,
             again |-> <<>>, error |-> "none"]

\* No snapshots are in the diff engine.
NoDiff == [pc |-> "none", a |-> Undefined, b |-> Undefined, ops |-> <<>>,
           ok |-> TRUE, doc |-> Undefined, recorded |-> <<>>]

\* No helper is being applied.
NoHelper == [pc |-> "none", fn |-> "", a |-> <<>>, b |-> <<>>, out |-> <<>>]

\* No document's dates are followed.
NoTimeline ==
  [pc |-> "none", timestamps |-> FALSE, now |-> 0, createdAt |-> 0,
   updatedAt |-> 0, records |-> <<>>]

\* The caller has no transaction open.
NoSession ==
  [active |-> FALSE, outcome |-> "none", store |-> <<>>, patches |-> <<>>]

NoEvent ==
  [kind |-> "none", ok |-> TRUE, upsert |-> FALSE, ref |-> 0,
   conditions |-> EmptyObj,
   before |-> <<>>, after |-> <<>>, targets |-> <<>>, upserted |-> 0,
   ids |-> <<>>, originals |-> <<>>, original |-> Undefined,
   current |-> Undefined, snapshot |-> Undefined, added |-> <<>>,
   error |-> "none", patchId |-> 0, data |-> EmptyObj, save |-> FALSE,
   live |-> Undefined, stage |-> "none", fault |-> "none"]

\* The collections a program leaves after creating up to two documents.
InitStores ==
  {<<>>} \cup {<<MkDoc(1, v)>> : v \in Views}
         \cup {<<MkDoc(1, v), MkDoc(2, w)>> : v \in Views, w \in Views}

Init ==
  /\ options \in Configs
  /\ store \in InitStores
  /\ patches = createdPatches(store, <<>>, options)
  /\ nextId = Len(store) + 1
  /\ nextPatchId = Len(patches) + 1
  /\ inst = NoInstance
  /\ q = IdleQuery
  /\ ev = NoEvent
  /\ nops = 0
  /\ fx = NoFilter
  /\ dx = NoDiff
  /\ session = NoSession
  /\ px = NoHelper
  /\ tl = NoTimeline
  /\ peer = IdleQuery

\* The same collections under a plugin that tracks original values.
InitTrack ==
  /\ options \in TrackConfigs
  /\ store \in InitStores
  /\ patches = createdPatches(store, <<>>, options)
  /\ nextId = Len(store) + 1
  /\ nextPatchId = Len(patches) + 1
  /\ inst = NoInstance
  /\ q = IdleQuery
  /\ ev = NoEvent
  /\ nops = 0
  /\ fx = NoFilter
  /\ dx = NoDiff
  /\ session = NoSession
  /\ px = NoHelper
  /\ tl = NoTimeline
  /\ peer = IdleQuery

\* The Change Records of `after` that `before` does not hold.
AddedTo(before, after) ==
  SelectSeq(after, LAMBDA p : \A i \in 1..Len(before) : before[i]._id # p._id)

InStore(docs, id) == \E i \in 1..Len(docs) : IdOf(docs[i]) = id

DocById(docs, id) == findOne(docs, ById(id))

\* Model.create(view): pre('save') records the patch of the new document,
\* whose _original is undefined, the store inserts it, post('save') takes
\* the snapshot.
Create(view) ==
  /\ nops < MaxOps
  /\ LET doc == MkDoc(nextId, view)
     IN /\ patches' = createPatch(patches, nextPatchId, nextId, Undefined,
                                  data(doc), options)
        /\ nextPatchId' = nextPatchId + Len(patches') - Len(patches)
        /\ store' = Append(store, doc)
        /\ inst' = [doc |-> doc, _original |-> snapshot(doc)]
        /\ ev' = [NoEvent EXCEPT !.kind = "save", !.ref = nextId,
                    !.before = store, !.after = store',
                    !.current = data(doc), !.snapshot = inst'._original,
                    !.added = AddedTo(patches, patches')]
  /\ nextId' = nextId + 1
  /\ nops' = nops + 1
  /\ UNCHANGED <<options, q>>

\* Model.findOne({_id: id}): post('init') takes the snapshot.
Load(id) ==
  /\ nops < MaxOps
  /\ InStore(store, id)
  /\ inst' = [doc |-> DocById(store, id),
              _original |-> snapshot(DocById(store, id))]
  /\ inst' # inst
  /\ UNCHANGED <<options, store, patches, nextId, nextPatchId, q, ev, nops>>

\* The stored document after save() writes the modified paths.
writeModified(stored, current, paths) ==
  ObjectAssign(stored, [i \in 1..Len(paths) |->
                          <<paths[i], Lookup(current, paths[i])>>])

\* doc.set(...) or doc.array.push(...) as the update expression describes,
\* then doc.save(): pre('save') records the patch, the store writes the
\* modified paths, post('save') takes the snapshot. The save of a document
\* that is no longer stored rejects after the pre hook.
SaveDoc(update) ==
  /\ nops < MaxOps
  /\ inst.doc # Undefined
  /\ LET id == IdOf(inst.doc)
         current == applyUpdate(inst.doc, update)
         stored == InStore(store, id)
     IN /\ patches' = createPatch(patches, nextPatchId, id, inst._original,
                                  data(current), options)
        /\ nextPatchId' = nextPatchId + Len(patches') - Len(patches)
        /\ store' = [i \in 1..Len(store) |->
                       IF IdOf(store[i]) = id
                         THEN writeModified(store[i], current,
                                            modifiedPaths(update))
                         ELSE store[i]]
        /\ inst' = [doc |-> current,
                    _original |-> IF stored THEN snapshot(current)
                                  ELSE inst._original]
        /\ ev' = [NoEvent EXCEPT !.kind = "save", !.ok = stored, !.ref = id,
                    !.before = store, !.after = store',
                    !.original = inst._original, !.current = data(current),
                    !.snapshot = inst'._original,
                    !.added = AddedTo(patches, patches')]
  /\ nops' = nops + 1
  /\ UNCHANGED <<options, nextId, q>>

\* doc.deleteOne(): pre('deleteOne') deletes the document's patches when
\* removePatches is set, then the store deletes the document.
DeleteOne ==
  /\ nops < MaxOps
  /\ inst.doc # Undefined
  /\ InStore(store, IdOf(inst.doc))
  /\ patches' = IF options.removePatches
                  THEN deletePatches(patches, IdOf(inst.doc))
                  ELSE patches
  /\ store' = SelectSeq(store, LAMBDA d : IdOf(d) # IdOf(inst.doc))
  /\ ev' = [NoEvent EXCEPT !.kind = "deleteOne", !.ref = IdOf(inst.doc),
              !.before = store, !.after = store']
  /\ nops' = nops + 1
  /\ UNCHANGED <<options, nextId, nextPatchId, inst, q>>

\* The sort option of a findOneAndDelete: none, or {_id: -1}.
Sorts == {"natural", "desc"}

\* The document the store's findOneAndDelete picks: the first match in
\* natural order, or the first under the sort.
sortedFirst(docs, conditions, sort) ==
  IF find(docs, conditions) = <<>> THEN Undefined
  ELSE IF sort = "desc"
    THEN find(docs, conditions)[Len(find(docs, conditions))]
  ELSE Head(find(docs, conditions))

\* Model.findOneAndDelete(conditions, {sort}): the pre hook deletes the
\* patches of the first match of this.getFilter() when removePatches is
\* set, then the store deletes the match its sort picks.
DeleteMatch(conditions, sort) ==
  /\ LET original == findOne(store, conditions)
     IN /\ original # Undefined
        /\ patches' = IF options.removePatches
                        THEN deletePatches(patches, IdOf(original))
                        ELSE patches
        /\ store' = SelectSeq(store, LAMBDA d :
                       IdOf(d) # IdOf(sortedFirst(store, conditions, sort)))
  /\ UNCHANGED <<options, nextId, nextPatchId, inst, q>>

DeleteFirstMatch(conditions) == DeleteMatch(conditions, "natural")

FindOneAndDelete(conditions, sort) ==
  /\ nops < MaxOps
  /\ DeleteMatch(conditions, sort)
  /\ ev' = [NoEvent EXCEPT !.kind = "findOneAndDelete",
              !.ref = IdOf(sortedFirst(store, conditions, sort)),
              !.conditions = conditions,
              !.before = store, !.after = store']
  /\ nops' = nops + 1

UpdateKinds == {"updateOne", "findOneAndUpdate", "updateMany"}

\* Capture-before: the pre hook of updateOne, findOneAndUpdate or updateMany.
StartUpdate(kind, conditions, update, upsert, meta) ==
  /\ nops < MaxOps
  /\ q.pc = "idle"
  /\ q' = [(IF kind = "updateMany"
              THEN preUpdateMany(NewQuery(kind, conditions, update, upsert, meta),
                                 store)
              ELSE preUpdateOne(NewQuery(kind, conditions, update, upsert, meta),
                                store))
           EXCEPT !.pc = "captured"]
  /\ ev' = NoEvent
  /\ nops' = nops + 1
  /\ UNCHANGED <<options, store, patches, nextId, nextPatchId, inst>>

\* The store executes the update.
Execute ==
  /\ q.pc = "captured"
  /\ store' = executeUpdate(store, q, nextId)
  /\ nextId' = IF Len(store') > Len(store) THEN nextId + 1 ELSE nextId
  /\ q' = [q EXCEPT !.pc = "applied",
                    !.result = updateResult(store, q),
                    !.before = store,
                    !.targets = updateTargets(store, q),
                    !.upserted = IF Len(store') > Len(store) THEN nextId ELSE 0]
  /\ UNCHANGED <<options, patches, nextPatchId, inst, ev, nops>>

\* Capture-after: the post hook.
Post ==
  /\ q.pc = "applied"
  /\ patches' = IF q.kind = "updateMany"
                  THEN postUpdateMany(q, store, patches, nextPatchId, options)
                  ELSE postUpdateOne(q, store, patches, nextPatchId, options)
  /\ nextPatchId' = nextPatchId + Len(patches') - Len(patches)
  /\ ev' = [NoEvent EXCEPT !.kind = q.kind, !.upsert = q.upsert,
              !.conditions = q._conditions,
              !.before = q.before, !.after = store,
              !.targets = q.targets, !.upserted = q.upserted,
              !.ids = IF q.kind = "updateMany" THEN q._originalIds
                      ELSE IF q._originalId = Undefined THEN <<>>
                      ELSE <<q._originalId.v>>,
              !.originals = IF q.kind = "updateMany" THEN q._originals
                            ELSE IF q._originalId = Undefined THEN <<>>
                            ELSE <<q._original>>,
              !.added = AddedTo(patches, patches')]
  /\ q' = IdleQuery
  /\ UNCHANGED <<options, store, nextId, inst, nops>>

\* rollback rejected: nothing is set and nothing is saved.
RollbackRejected(patchId, dataArg, save, error) ==
  /\ ev' = [NoEvent EXCEPT !.kind = "rollback", !.ok = FALSE,
              !.error = error, !.ref = IdOf(inst.doc), !.patchId = patchId,
              !.data = dataArg, !.save = save, !.live = inst.doc,
              !.before = store, !.after = store,
              !.original = inst._original, !.current = data(inst.doc),
              !.snapshot = inst._original]
  /\ UNCHANGED <<store, patches, nextPatchId, inst>>

\* rollback resolved without saving: only the instance has changed.
RollbackInMemory(patchId, dataArg, save, current) ==
  /\ inst' = [doc |-> current, _original |-> inst._original]
  /\ ev' = [NoEvent EXCEPT !.kind = "rollback", !.ref = IdOf(inst.doc),
              !.patchId = patchId, !.data = dataArg, !.save = save,
              !.live = inst.doc, !.before = store, !.after = store,
              !.original = inst._original, !.current = data(current),
              !.snapshot = inst._original]
  /\ UNCHANGED <<store, patches, nextPatchId>>

\* rollback saves the document: pre('save') records the patch, the store
\* writes the modified paths, post('save') takes the snapshot; the save of
\* a document that is no longer stored rejects after the pre hook.
RollbackSaved(patchId, dataArg, save, current, stored) ==
  /\ patches' = createPatch(patches, nextPatchId, IdOf(inst.doc),
                            inst._original, data(current), options)
  /\ nextPatchId' = nextPatchId + Len(patches') - Len(patches)
  /\ store' = [i \in 1..Len(store) |->
                 IF IdOf(store[i]) = IdOf(inst.doc)
                   THEN writeModified(store[i], current,
                                      setPaths(inst.doc, current))
                   ELSE store[i]]
  /\ inst' = [doc |-> current,
              _original |-> IF stored THEN snapshot(current)
                            ELSE inst._original]
  /\ ev' = [NoEvent EXCEPT !.kind = "rollback", !.ok = stored,
              !.error = IF stored THEN "none" ELSE "SaveError",
              !.ref = IdOf(inst.doc), !.patchId = patchId,
              !.data = dataArg, !.save = save, !.live = inst.doc,
              !.before = store, !.after = store',
              !.original = inst._original, !.current = data(current),
              !.snapshot = inst'._original,
              !.added = AddedTo(patches, patches')]

RollbackOutcome(patchId, dataArg, save, error, found) ==
  IF error # "none" THEN RollbackRejected(patchId, dataArg, save, error)
  ELSE IF persists(save)
    THEN RollbackSaved(patchId, dataArg, save,
                       rolledBack(inst.doc, found, patchId, dataArg),
                       InStore(store, IdOf(inst.doc)))
  ELSE RollbackInMemory(patchId, dataArg, save,
                        rolledBack(inst.doc, found, patchId, dataArg))

\* doc.rollback(patchId, data, save) on the instance in memory. A run ends
\* with its rollbacks: one, and a second one when the first added a record.
Rollback(patchId, dataArg, save) ==
  /\ nops <= MaxOps \/ (nops = MaxOps + 1 /\ ev.added # <<>>)
  /\ inst.doc # Undefined
  /\ RollbackOutcome(patchId, dataArg, save,
                     rollbackError(findPatches(patches, IdOf(inst.doc)),
                                   patchId),
                     findPatches(patches, IdOf(inst.doc)))
  /\ nops' = IF nops <= MaxOps THEN MaxOps + 1 ELSE nops + 1
  /\ UNCHANGED <<options, nextId, q>>

Idle == q.pc = "idle"

CreateStep == Idle /\ (\E view \in Views : Create(view)) /\ UNCHANGED <<fx, dx, session, px, tl, peer>>
LoadStep == Idle /\ (\E id \in 1..(nextId - 1) : Load(id)) /\ UNCHANGED <<fx, dx, session, px, tl, peer>>
SaveStep ==
  Idle /\ (\E update \in Updates \cup {EmptyObj} : SaveDoc(update))
       /\ UNCHANGED <<fx, dx, session, px, tl, peer>>
DeleteOneStep == Idle /\ DeleteOne /\ UNCHANGED <<fx, dx, session, px, tl, peer>>
FindOneAndDeleteStep ==
  Idle /\ (\E c \in Conditions, sort \in Sorts : FindOneAndDelete(c, sort))
       /\ UNCHANGED <<fx, dx, session, px, tl, peer>>
UpdateStep ==
  /\ \E kind \in UpdateKinds, c \in Conditions, u \in Updates,
        upsert \in BOOLEAN :
       \E meta \in (IF kind = "findOneAndUpdate" THEN BOOLEAN ELSE {FALSE}) :
         StartUpdate(kind, c, u, upsert, meta)
  /\ UNCHANGED <<fx, dx, session, px, tl, peer>>
ExecuteStep == Execute /\ UNCHANGED <<fx, dx, session, px, tl, peer>>
PostStep == Post /\ UNCHANGED <<fx, dx, session, px, tl, peer>>

\* A findOneAndDelete by another caller between capture-before and
\* capture-after of the update in flight.
ConcurrentDelete ==
  /\ ~Idle
  /\ \E c \in Conditions : DeleteFirstMatch(c)
  /\ UNCHANGED <<ev, nops, fx, dx, session, px, tl, peer>>

\* Operations run one at a time.
Next ==
  \/ CreateStep
  \/ LoadStep
  \/ SaveStep
  \/ DeleteOneStep
  \/ FindOneAndDeleteStep
  \/ UpdateStep
  \/ ExecuteStep
  \/ PostStep

Spec == Init /\ [][Next]_vars

\* A patch id never generated (0) or the id of any Change Record created.
RollbackStep ==
  /\ Idle
  /\ \E patchId \in 0..(nextPatchId - 1), dataArg \in Overrides,
        save \in BOOLEAN : Rollback(patchId, dataArg, save)
  /\ UNCHANGED <<fx, dx, session, px, tl, peer>>

\* A document instance is loaded, changed and saved or deleted, and rolled
\* back.
NextRollback == LoadStep \/ SaveStep \/ DeleteOneStep \/ RollbackStep

SpecRollback == Init /\ [][NextRollback]_vars

\* Operations run one at a time under a plugin that tracks original values.
SpecTrack == InitTrack /\ [][Next]_vars

\* session.startTransaction(): the operations that follow carry the
\* caller's session; the collections as they are now are what an abort
\* restores for the writes made under the session.
StartTransaction ==
  /\ Idle
  /\ ~session.active
  /\ nops < MaxOps
  /\ session' = [active |-> TRUE, outcome |-> "none", store |-> store,
                 patches |-> patches]
  /\ UNCHANGED <<options, store, patches, nextId, nextPatchId, inst, q, ev,
                 nops, fx, dx, px, tl, peer>>

\* The session the writes to the patch collection run under:
\* document.patches.create(data) and patch.deleteOne() are passed none.
patchesSession(callerSession) == "none"

\* session.abortTransaction(): the store discards the writes made under
\* the session and keeps the others.
AbortTransaction ==
  /\ Idle
  /\ session.active
  /\ store' = session.store
  /\ patches' = IF patchesSession("caller") = "caller" THEN session.patches
                ELSE patches
  /\ session' = [session EXCEPT !.active = FALSE, !.outcome = "aborted"]
  /\ UNCHANGED <<options, nextId, nextPatchId, inst, q, ev, nops, fx, dx, px, tl, peer>>

\* session.commitTransaction()
CommitTransaction ==
  /\ Idle
  /\ session.active
  /\ session' = [session EXCEPT !.active = FALSE, !.outcome = "committed"]
  /\ UNCHANGED <<options, store, patches, nextId, nextPatchId, inst, q, ev,
                 nops, fx, dx, px, tl, peer>>

\* Saves, deletes and conditional updates inside and outside a transaction.
NextTx ==
  \/ StartTransaction
  \/ LoadStep
  \/ SaveStep
  \/ DeleteOneStep
  \/ UpdateStep
  \/ ExecuteStep
  \/ PostStep
  \/ AbortTransaction
  \/ CommitTransaction

SpecTx == Init /\ [][NextTx]_vars

\* The errors a call to the store rejects with. A behaviour has at most one
\* rejected call, after which the caller does nothing but repeat a save.
Errors == {"MongoNetworkError", "MongoServerError"}

\* Faulty variant of rejection: the hook catches the error.
rejectionSwallowed(error) == "none"

\* What the call of the mutation rejects with when a store call awaited in
\* a hook rejects with error: the hooks await without a catch.
rejection(error) == error

\* doc.save() with a store call that rejects: at "insert"
\* document.patches.create(data) of pre('save') rejects and nothing is
\* written; at "write" the pre hook has completed and the write of the
\* document rejects, so post('save') does not run.
SaveFault ==
  /\ Idle
  /\ nops < MaxOps
  /\ inst.doc # Undefined
  /\ InStore(store, IdOf(inst.doc))
  /\ \E update \in Updates, stage \in {"insert", "write"}, error \in Errors :
       LET id == IdOf(inst.doc)
           current == applyUpdate(inst.doc, update)
       IN /\ IF stage = "insert"
               THEN /\ createPatch(patches, nextPatchId, id, inst._original,
                                   data(current), options) # patches
                    /\ patches' = patches
               ELSE patches' = createPatch(patches, nextPatchId, id,
                                           inst._original, data(current),
                                           options)
          /\ nextPatchId' = nextPatchId + Len(patches') - Len(patches)
          /\ inst' = [doc |-> current, _original |-> inst._original]
          /\ ev' = [NoEvent EXCEPT !.kind = "save", !.ok = FALSE, !.ref = id,
                      !.before = store, !.after = store,
                      !.original = inst._original,
                      !.current = data(current),
                      !.snapshot = inst._original,
                      !.added = AddedTo(patches, patches'),
                      !.data = update, !.stage = stage, !.fault = error,
                      !.error = rejection(error)]
  /\ nops' = MaxOps
  /\ UNCHANGED <<options, store, nextId, q, fx, dx, session, px, tl, peer>>

\* doc.save() again after the write of the document was rejected: the
\* paths are still modified and _original is the snapshot from before.
SaveAgain ==
  /\ Idle
  /\ nops = MaxOps
  /\ ev.kind = "save"
  /\ ev.stage = "write"
  /\ patches' = createPatch(patches, nextPatchId, IdOf(inst.doc),
                            inst._original, data(inst.doc), options)
  /\ nextPatchId' = nextPatchId + Len(patches') - Len(patches)
  /\ store' = [i \in 1..Len(store) |->
                 IF IdOf(store[i]) = IdOf(inst.doc)
                   THEN writeModified(store[i], inst.doc,
                                      modifiedPaths(ev.data))
                   ELSE store[i]]
  /\ inst' = [doc |-> inst.doc, _original |-> snapshot(inst.doc)]
  /\ ev' = [NoEvent EXCEPT !.kind = "save", !.ref = IdOf(inst.doc),
              !.before = store, !.after = store',
              !.original = inst._original, !.current = data(inst.doc),
              !.snapshot = inst'._original,
              !.added = AddedTo(patches, patches'),
              !.data = ev.data, !.stage = "retry"]
  /\ nops' = nops + 1
  /\ UNCHANGED <<options, nextId, q, fx, dx, session, px, tl, peer>>

\* The lookup of the pre hook of an update rejects: the update is not
\* issued and the post hook does not run.
CaptureFault ==
  /\ Idle
  /\ nops < MaxOps
  /\ \E kind \in UpdateKinds, c \in Conditions, error \in Errors :
       ev' = [NoEvent EXCEPT !.kind = kind, !.ok = FALSE, !.conditions = c,
                !.before = store, !.after = store, !.stage = "before",
                !.fault = error, !.error = rejection(error)]
  /\ nops' = MaxOps
  /\ UNCHANGED <<options, store, patches, nextId, nextPatchId, inst, q, fx,
                 dx, session, px, tl, peer>>

\* The post hook with a store call that rejects, attempted being the Change
\* Records the hook would leave: at "after" the lookup of the affected
\* documents rejects; at "insert" the creation of the records at the
\* positions in failing rejects, and Promise.all does not undo the others.
PostFault(stage, error, attempted) ==
  /\ \E failing \in SUBSET (1..(Len(attempted) - Len(patches))) :
       /\ (stage = "after") = (failing = {})
       /\ patches' = SelectSeq(attempted, LAMBDA r :
                        /\ stage = "after" => r \in SeqRange(patches)
                        /\ \A k \in failing : r # attempted[Len(patches) + k])
  /\ nextPatchId' = IF stage = "after" THEN nextPatchId
                    ELSE nextPatchId + Len(attempted) - Len(patches)
  /\ ev' = [NoEvent EXCEPT !.kind = q.kind, !.ok = FALSE,
              !.upsert = q.upsert, !.conditions = q._conditions,
              !.before = q.before, !.after = store,
              !.targets = q.targets, !.upserted = q.upserted,
              !.added = AddedTo(patches, patches'),
              !.stage = stage, !.fault = error,
              !.error = rejection(error)]

\* The post hook of an update when a store call it awaits rejects.
UpdateFault ==
  /\ q.pc = "applied"
  /\ ~noMatchNoUpsert(q.result)
  /\ \E stage \in {"after", "insert"}, error \in Errors :
       PostFault(stage, error,
                 IF q.kind = "updateMany"
                   THEN postUpdateMany(q, store, patches, nextPatchId, options)
                   ELSE postUpdateOne(q, store, patches, nextPatchId, options))
  /\ q' = IdleQuery
  /\ nops' = MaxOps
  /\ UNCHANGED <<options, store, nextId, inst, fx, dx, session, px, tl, peer>>

\* Saves and updates whose store calls may reject.
NextFault ==
  \/ LoadStep
  \/ SaveStep
  \/ SaveFault
  \/ SaveAgain
  \/ UpdateStep
  \/ CaptureFault
  \/ ExecuteStep
  \/ PostStep
  \/ UpdateFault

SpecFault == Init /\ [][NextFault]_vars

\* The runs of the conditional updates alone.
NextLive == UpdateStep \/ ExecuteStep \/ PostStep

\* The post hook has returned: the query is done. PostStep is the only step
\* that leaves the position "applied" and it is enabled there whatever the
\* store holds.
PostCompletes == q.pc = "applied" /\ q' = IdleQuery

\* The store completes an update it was sent, and mongoose runs the post
\* hook once the update has completed.
SpecLive ==
  Init /\ [][NextLive]_vars /\ WF_vars(ExecuteStep) /\ WF_q(PostCompletes)

\* The longest segment sequence the path helpers are run on.
MaxPathLen == 2

\* Path segments: keys, the wildcard, array indices and the empty segment.
Segments == {"a", "*", "0", "1", ""}

SegmentSeqs == UNION {[1..n -> Segments] : n \in 0..MaxPathLen}

\* json-patch paths as strings: '/', '/a', '/a/0', 'a/0', '//a', ...
PathStrings == UNION {[1..n -> {"/", "a", "0"}] : n \in 1..4}

\* Match conditions and updates of the conditions helper: equality on
\* fields and a top-level $or; direct assignments, $set, $push, both.
HelperConditions ==
  Conditions \cup
  { Obj(<< <<"$or", Arr(<< Obj(<< <<"title", Str("a")>> >>),
                          Obj(<< <<"title", Str("b")>> >>) >>)>> >>),
    Obj(<< <<"title", Str("a")>>, <<"hidden", Str("x")>> >>) }

HelperUpdates ==
  Updates \cup
  { Undefined,
    Obj(<< <<"$set", Obj(<< <<"title", Str("b")>> >>)>>,
           <<"$push", Obj(<< <<"array", HiddenElem>> >>)>> >>) }

InitHelpers ==
  /\ options = ResolvedOptions(<<>>, TRUE)
  /\ store = <<>>
  /\ patches = <<>>
  /\ nextId = 1
  /\ nextPatchId = 1
  /\ inst = NoInstance
  /\ q = IdleQuery
  /\ ev = NoEvent
  /\ nops = 0
  /\ fx = NoFilter
  /\ dx = NoDiff
  /\ session = NoSession
  /\ tl = NoTimeline
  /\ peer = IdleQuery
  /\ \/ \E a \in SegmentSeqs, b \in SegmentSeqs :
          px = [NoHelper EXCEPT !.pc = "input", !.fn = "isPathContained",
                                !.a = a, !.b = b]
     \/ \E a \in PathStrings :
          px = [NoHelper EXCEPT !.pc = "input", !.fn = "getArrayFromPath",
                                !.a = a]
     \/ \E a \in HelperConditions, b \in HelperUpdates :
          px = [NoHelper EXCEPT !.pc = "input",
                                !.fn = "mergeQueryConditionsWithUpdate",
                                !.a = a, !.b = b]

\* isPathContained(fractionPath, fullPath)
ContainPath ==
  /\ px.pc = "input"
  /\ px.fn = "isPathContained"
  /\ px' = [px EXCEPT !.pc = "output", !.out = isPathContained(px.a, px.b)]
  /\ UNCHANGED <<options, store, patches, nextId, nextPatchId, inst, q, ev,
                 nops, fx, dx, session, tl, peer>>

\* getArrayFromPath(path)
SplitPath ==
  /\ px.pc = "input"
  /\ px.fn = "getArrayFromPath"
  /\ px' = [px EXCEPT !.pc = "output", !.out = getArrayFromPath(px.a)]
  /\ UNCHANGED <<options, store, patches, nextId, nextPatchId, inst, q, ev,
                 nops, fx, dx, session, tl, peer>>

\* mergeQueryConditionsWithUpdate(_conditions, _update)
MergeConditions ==
  /\ px.pc = "input"
  /\ px.fn = "mergeQueryConditionsWithUpdate"
  /\ px' = [px EXCEPT !.pc = "output",
                      !.out = mergeQueryConditionsWithUpdate(px.a, px.b)]
  /\ UNCHANGED <<options, store, patches, nextId, nextPatchId, inst, q, ev,
                 nops, fx, dx, session, tl, peer>>

NextHelpers == ContainPath \/ SplitPath \/ MergeConditions

SpecHelpers == InitHelpers /\ [][NextHelpers]_vars

\* Every operation of the plugin, run one at a time.
NextAll == Next \/ RollbackStep

SpecAll == Init /\ [][NextAll]_vars

\* Other callers may delete documents while an update is in flight.
NextConc == Next \/ ConcurrentDelete

SpecConc == Init /\ [][NextConc]_vars

----------------------------------------------------------------------------
(* The exclusion filter on its own                                         *)

\* The longest operation list put through the filter.
MaxFilterLen == 2

\* An element of a nested array: a list entry holding items.
ItemsElem ==
  Obj(<< <<"items", Arr(<< Obj(<< <<"hidden", Str("h")>>, <<"x", Str("v")>> >>),
                          Obj(<< <<"x", Str("v")>> >>) >>)>> >>)

AddOp(path, value) == [op |-> "add", path |-> path, value |-> value]

\* Operations jsonpatch.compare produces for documents with a title, a
\* hidden field, an array of sub-documents, a list of entries with items,
\* an array of tags and a nested object.
FilterInputs ==
  { AddOp(<<"/", "title">>, Str("a")),
    AddOp(<<"/", "hidden">>, Str("h")),
    [op |-> "remove", path |-> <<"/", "hidden">>],
    AddOp(<<"/", "array">>, Arr(<<>>)),
    AddOp(<<"/", "array">>,
          Arr(<<HiddenElem, Obj(<< <<"property", Str("v")>> >>)>>)),
    AddOp(<<"/", "array">>, Arr(<<Obj(<< <<"hiddenProperty", Str("h")>> >>)>>)),
    AddOp(<<"/", "array", "/", "0">>, HiddenElem),
    [op |-> "replace", path |-> <<"/", "array", "/", "0", "/", "hiddenProperty">>,
     value |-> Str("x")],
    AddOp(<<"/", "list">>, Arr(<<ItemsElem>>)),
    AddOp(<<"/", "list", "/", "0">>, ItemsElem),
    AddOp(<<"/", "tags">>, Arr(<<Str("a"), Str("b")>>)),
    AddOp(<<"/", "tags">>, Arr(<<Str("a")>>)),
    AddOp(<<"/", "object">>, EmptyObj),
    AddOp(<<"/", "object">>, Obj(<< <<"hiddenProperty", Str("h")>> >>)),
    AddOp(<<"/", "object">>, HiddenElem),
    AddOp(<<"/", "tags">>, Str("a")) }

\* The exclude options the filter is run with.
FilterExcludeStrings ==
  { ExcludeStrings,
    << <<"/", "list", "/", "*", "/", "items", "/", "*", "/", "hidden">>,
       <<"/", "object", "/", "hiddenProperty">> >>,
    << <<"/", "tags", "/", "0">>, <<"/", "hidden">> >>,
    << <<"/">>, <<"/", "array", "/", "/", "hiddenProperty">> >> }

InitFilter ==
  /\ options \in {ResolvedOptions(e, TRUE) : e \in FilterExcludeStrings}
  /\ store = <<>>
  /\ patches = <<>>
  /\ nextId = 1
  /\ nextPatchId = 1
  /\ inst = NoInstance
  /\ q = IdleQuery
  /\ ev = NoEvent
  /\ nops = 0
  /\ dx = NoDiff
  /\ session = NoSession
  /\ px = NoHelper
  /\ tl = NoTimeline
  /\ peer = IdleQuery
  /\ \E n \in 1..MaxFilterLen :
       \E ops \in [1..n -> FilterInputs] :
         fx = [NoFilter EXCEPT !.pc = "input", !.ops = ops]

\* ops.filter(...) of createPatch on the operation list; `deep` keeps what
\* deepRemovePath makes of each operation under each pattern on its own.
\* When the filter throws there is no list: `error` names the exception.
ApplyFilter ==
  /\ fx.pc = "input"
  /\ fx' = [fx EXCEPT
              !.pc = "filtered",
              !.deep = [i \in 1..Len(fx.ops) |->
                          [k \in 1..Len(options.excludes) |->
                             deepRemovePath(fx.ops[i], options.excludes[k])]],
              !.out = IF filterOpsThrows(fx.ops, options.excludes)
                        THEN <<>>
                        ELSE filterOps(fx.ops, options.excludes),
              !.error = IF filterOpsThrows(fx.ops, options.excludes)
                          THEN "TypeError"
                          ELSE "none"]
  /\ UNCHANGED <<options, store, patches, nextId, nextPatchId, inst, q, ev,
                 nops, dx, session, px, tl, peer>>

\* The filter applied to its own result.
FilterAgain ==
  /\ fx.pc = "filtered"
  /\ fx.error = "none"
  /\ fx' = [fx EXCEPT !.pc = "refiltered",
                      !.again = filterOps(fx.out, options.excludes)]
  /\ UNCHANGED <<options, store, patches, nextId, nextPatchId, inst, q, ev,
                 nops, dx, session, px, tl, peer>>

NextFilter == ApplyFilter \/ FilterAgain

SpecFilter == InitFilter /\ [][NextFilter]_vars

----------------------------------------------------------------------------
(* The diff engine on its own                                              *)

\* An element of an array of sub-documents without excluded properties.
PlainElem == Obj(<< <<"property", Str("w")>> >>)

\* Normalized snapshots: a title, an array of sub-documents and a nested
\* value, each present or not.
SnapshotFields ==
  [title : {Undefined, Str("a"), Str("b")},
   array : {Undefined, Arr(<<>>), Arr(<<HiddenElem>>),
            Arr(<<HiddenElem, PlainElem>>), Arr(<<PlainElem>>),
            Arr(<<PlainElem, HiddenElem, HiddenElem>>)},
   object : {Undefined, EmptyObj, Obj(<< <<"p", Str("v")>> >>),
             Obj(<< <<"q", Arr(<<Str("x")>>)>>, <<"p", Str("w")>> >>),
             Str("s"), Arr(<<Str("x"), Str("y")>>)}]

SnapshotOf(f) ==
  toJSON(Obj(<< <<"title", f.title>>, <<"array", f.array>>,
               <<"object", f.object>> >>))

Snapshots == {SnapshotOf(f) : f \in SnapshotFields}

InitDiff ==
  /\ options = ResolvedOptions(<<>>, TRUE)
  /\ store = <<>>
  /\ patches = <<>>
  /\ nextId = 1
  /\ nextPatchId = 1
  /\ inst = NoInstance
  /\ q = IdleQuery
  /\ ev = NoEvent
  /\ nops = 0
  /\ fx = NoFilter
  /\ session = NoSession
  /\ px = NoHelper
  /\ tl = NoTimeline
  /\ peer = IdleQuery
  /\ \E a \in Snapshots, b \in Snapshots :
       dx = [NoDiff EXCEPT !.pc = "input", !.a = a, !.b = b]

\* jsonpatch.compare(document._original || {}, toJSON(document.data()))
Diff ==
  /\ dx.pc = "input"
  /\ dx' = [dx EXCEPT !.pc = "diffed", !.ops = compare(dx.a, dx.b)]
  /\ UNCHANGED <<options, store, patches, nextId, nextPatchId, inst, q, ev,
                 nops, fx, session, px, tl, peer>>

\* jsonpatch.applyPatch(state, ops, true) on the older snapshot.
Patch ==
  /\ dx.pc = "diffed"
  /\ dx' = [dx EXCEPT !.pc = "patched",
                      !.ok = applyPatch(dx.a, dx.ops).ok,
                      !.doc = applyPatch(dx.a, dx.ops).doc]
  /\ UNCHANGED <<options, store, patches, nextId, nextPatchId, inst, q, ev,
                 nops, fx, session, px, tl, peer>>

\* compareResult.map(op => ...): the operations as createPatch records
\* them when nothing is excluded.
Copy ==
  /\ dx.pc = "diffed"
  /\ dx' = [dx EXCEPT !.pc = "copied", !.recorded = copyOps(dx.ops)]
  /\ UNCHANGED <<options, store, patches, nextId, nextPatchId, inst, q, ev,
                 nops, fx, session, px, tl, peer>>

NextDiff == Diff \/ Patch \/ Copy

SpecDiff == InitDiff /\ [][NextDiff]_vars

----------------------------------------------------------------------------
(* Properties                                                              *)

SingleKinds == {"updateOne", "findOneAndUpdate"}

\* The normalized data view of the document `id` in `docs`.
ViewOf(docs, id) == toJSON(data(DocById(docs, id)))

\* The records of `recs` whose ref is `id`.
RecordsFor(recs, id) == SelectSeq(recs, LAMBDA r : r.ref = id)

\* The operations createPatch leaves for the step from `original` to `view`.
DiffOf(original, view) == patchOps(original, view, options.excludes)

\* C1: an updateOne or findOneAndUpdate without upsert whose conditions
\* select no document adds no Change Record.
C1_NoMatchSingleAddsNothing ==
  (/\ ev.kind \in SingleKinds
   /\ ~ev.upsert
   /\ find(ev.before, ev.conditions) = <<>>)
  => ev.added = <<>>

\* C2: an updateMany without upsert whose conditions select no document
\* adds no Change Record.
C2_NoMatchManyAddsNothing ==
  (/\ ev.kind = "updateMany"
   /\ ~ev.upsert
   /\ find(ev.before, ev.conditions) = <<>>)
  => ev.added = <<>>

\* C3: a single conditional update that modifies an existing document adds
\* at most one Change Record; its ref is the identity of the document the
\* store modified and its ops are the diff from that document's pre-update
\* data view to its post-update data view.
C3_SingleUpdateRecordsModifiedDoc ==
  (ev.kind \in SingleKinds /\ ev.targets # <<>>)
  => /\ Len(ev.added) <= 1
     /\ \A i \in 1..Len(ev.added) :
          /\ ev.added[i].ref = ev.targets[1]
          /\ ev.added[i].ops = DiffOf(ViewOf(ev.before, ev.targets[1]),
                                      ViewOf(ev.after, ev.targets[1]))

\* C3 witness: the conditions matched more than one document, the update
\* changed a field the conditions use, and a record was added.
C3_Witness ==
  /\ ev.kind \in SingleKinds
  /\ Len(find(ev.before, ev.conditions)) >= 2
  /\ ev.conditions # EmptyObj
  /\ ~Matches(DocById(ev.after, ev.targets[1]), ev.conditions)
  /\ Len(ev.added) = 1

\* C4: when updateOne or findOneAndUpdate with upsert inserts a document,
\* exactly one Change Record is added, for the inserted document, with the
\* diff from the empty structure to its data view.
C4_UpsertInsertRecordsInserted ==
  (ev.kind \in SingleKinds /\ ev.upserted # 0)
  => /\ Len(ev.added) = 1
     /\ ev.added[1].ref = ev.upserted
     /\ ev.added[1].ops = DiffOf(EmptyObj, ViewOf(ev.after, ev.upserted))

\* C5: when updateMany with upsert inserts a document, exactly one Change
\* Record is added, for the inserted document, and none for a document that
\* existed before.
C5_UpsertManyRecordsOnlyInserted ==
  (ev.kind = "updateMany" /\ ev.upserted # 0)
  => /\ Len(ev.added) = 1
     /\ ev.added[1].ref = ev.upserted

CapturedFor(id) ==
  IF \E i \in 1..Len(ev.ids) : ev.ids[i] = id
    THEN ev.originals[CHOOSE i \in 1..Len(ev.ids) : ev.ids[i] = id]
    ELSE Undefined

\* C7: in a batch update every added Change Record's ops are the diff from
\* the prior snapshot captured for the same identity (the empty structure
\* when none was captured) to that document's post-update data view.
C7_BatchPairsByIdentity ==
  ev.kind = "updateMany"
  => \A i \in 1..Len(ev.added) :
       ev.added[i].ops = DiffOf(CapturedFor(ev.added[i].ref),
                                ViewOf(ev.after, ev.added[i].ref))

\* The prior snapshot of a save, the empty structure for a new document.
PriorOf(original) == IF original = Undefined THEN EmptyObj ELSE original

C9_UnchangedAddsNothing ==
  /\ (ev.kind = "save" /\ toJSON(ev.current) = ev.original)
       => ev.added = <<>>
  /\ ev.kind \in UpdateKinds
       => \A i \in 1..Len(ev.ids) :
            (/\ InStore(ev.after, ev.ids[i])
             /\ ViewOf(ev.after, ev.ids[i]) = ev.originals[i])
            => RecordsFor(ev.added, ev.ids[i]) = <<>>

\* C9 witness: an upsert found the document already present and left its
\* data view as it was; no record was added.
C9_Witness ==
  /\ ev.kind \in UpdateKinds
  /\ ev.upsert
  /\ ev.ids # <<>>
  /\ ViewOf(ev.after, ev.ids[1]) = ev.originals[1]
  /\ ev.added = <<>>

\* The paths of the sub-values of a value, relative to the value.
RECURSIVE SubPaths(_)
SubPaths(value) ==
  IF ~IsContainer(value) THEN {}
  ELSE UNION { {<<k>>} \cup {<<k>> \o p : p \in SubPaths(Lookup(value, k))}
               : k \in SeqRange(ObjectKeys(value)) }

\* The operation's path is covered by the pattern, or its value holds a
\* sub-value at a path the pattern matches.
HoldsExcluded(op, exclude) ==
  \/ isPathContained(exclude, getArrayFromPath(op.path))
  \/ \E p \in SubPaths(OpValue(op)) :
       /\ Len(getArrayFromPath(op.path) \o p) = Len(exclude)
       /\ isPathContained(exclude, getArrayFromPath(op.path) \o p)

\* C10: no operation of any Change Record has a path covered by an exclude
\* pattern or a value that holds a sub-value at a path an exclude pattern
\* matches.
C10_NoExcludedProperty ==
  \A i \in 1..Len(patches) :
    \A j \in 1..Len(patches[i].ops) :
      \A k \in 1..Len(options.excludes) :
        ~HoldsExcluded(patches[i].ops[j], options.excludes[k])

\* Every operation has a path covered by one of the exclude patterns.
AllCovered(ops) ==
  \A i \in 1..Len(ops) :
    \E k \in 1..Len(options.excludes) :
      isPathContained(options.excludes[k], getArrayFromPath(ops[i].path))

\* C11: a mutation run on its own whose every difference (operation of the
\* comparison) lies at a path covered by an exclude pattern adds no Change
\* Record for the document, and no Change Record has an empty ops sequence.
C11_CoveredChangesAddNothing ==
  /\ \A i \in 1..Len(patches) : patches[i].ops # <<>>
  /\ (ev.kind = "save"
      /\ AllCovered(compare(PriorOf(ev.original), toJSON(ev.current))))
       => ev.added = <<>>
  /\ ev.kind \in UpdateKinds
       => \A i \in 1..Len(ev.ids) :
            (/\ InStore(ev.after, ev.ids[i])
             /\ AllCovered(compare(ev.originals[i], ViewOf(ev.after, ev.ids[i]))))
            => RecordsFor(ev.added, ev.ids[i]) = <<>>

\* C11 witness: a save changed the document's data view, every operation
\* of the comparison was covered by an exclude pattern, no record was added.
C11_Witness ==
  /\ ev.kind = "save"
  /\ ev.ok
  /\ compare(PriorOf(ev.original), toJSON(ev.current)) # <<>>
  /\ AllCovered(compare(PriorOf(ev.original), toJSON(ev.current)))
  /\ ev.added = <<>>

\* The sanitized path segments of an operation.
SegsOf(op) == sanitizeEmptyPath(getArrayFromPath(op.path))

\* The pattern extends past the operation's path and its leading segments
\* match that path.
ExtendsPast(exclude, op) ==
  /\ Len(SegsOf(op)) < Len(exclude)
  /\ isPathContained(SubSeq(exclude, 1, Len(SegsOf(op))), SegsOf(op))

\* The rest of the pattern below the operation's path.
Below(exclude, op) == SubSeq(exclude, Len(SegsOf(op)) + 1, Len(exclude))

\* The sub-value of a value at a path of literal keys.
RECURSIVE ValueAt(_, _)
ValueAt(value, path) ==
  IF path = <<>> THEN value ELSE ValueAt(Lookup(value, Head(path)), Tail(path))

\* The value with every sub-value at a path the pattern matches removed.
RECURSIVE Without(_, _)
Without(value, pattern) ==
  IF ~IsContainer(value) THEN value
  ELSE IF Len(pattern) = 1
    THEN IF HasOwn(value, pattern[1]) THEN DeleteKey(value, pattern[1])
         ELSE value
  ELSE IF pattern[1] = ARRAY_INDEX_WILDCARD /\ IsArr(value)
    THEN Arr([j \in 1..Len(value.v) |-> Without(value.v[j], Tail(pattern))])
  ELSE IF HasOwn(value, pattern[1])
    THEN SetKey(value, pattern[1],
                Without(Lookup(value, pattern[1]), Tail(pattern)))
  ELSE value

\* The positions of `rest` that hold the first wildcard of `rest`, when the
\* value holds an array there.
WildArrayAt(value, rest) ==
  { w \in 1..(Len(rest) - 1) :
      /\ rest[w] = ARRAY_INDEX_WILDCARD
      /\ \A u \in 1..(w - 1) : rest[u] # ARRAY_INDEX_WILDCARD
      /\ IsArr(ValueAt(value, SubSeq(rest, 1, w - 1))) }

\* C12: when a pattern with a wildcard segment is applied to an operation
\* whose value holds an array at that position, the array keeps its length
\* and order and every element is the element without the excluded key.
C12_WildcardPrunesEveryElement ==
  fx.pc # "input" =>
    \A i \in 1..Len(fx.ops) : \A k \in 1..Len(options.excludes) :
      ExtendsPast(options.excludes[k], fx.ops[i]) =>
        \A w \in WildArrayAt(OpValue(fx.ops[i]),
                             Below(options.excludes[k], fx.ops[i])) :
          LET rest == Below(options.excludes[k], fx.ops[i])
              upTo == SubSeq(rest, 1, w - 1)
              old == ValueAt(OpValue(fx.ops[i]), upTo)
              new == ValueAt(OpValue(fx.deep[i][k].patch), upTo)
          IN /\ IsArr(new)
             /\ Len(new.v) = Len(old.v)
             /\ \A j \in 1..Len(old.v) :
                  new.v[j] = Without(old.v[j], SubSeq(rest, w + 1, Len(rest)))

\* The value holds a sub-value at a path the pattern matches.
RECURSIVE HasPath(_, _)
HasPath(value, pattern) ==
  IF pattern = <<>> THEN TRUE
  ELSE IF ~IsContainer(value) THEN FALSE
  ELSE IF pattern[1] = ARRAY_INDEX_WILDCARD /\ IsArr(value)
    THEN \E j \in 1..Len(value.v) : HasPath(value.v[j], Tail(pattern))
  ELSE /\ HasOwn(value, pattern[1])
       /\ HasPath(Lookup(value, pattern[1]), Tail(pattern))

\* C13: for a pattern that extends past the operation's path, when the
\* nested sub-path does not exist in the operation's value, the operation
\* is kept and its value is unchanged by that pattern.
C13_MissingSubPathKeepsOperation ==
  fx.pc # "input" =>
    \A i \in 1..Len(fx.ops) : \A k \in 1..Len(options.excludes) :
      (/\ ExtendsPast(options.excludes[k], fx.ops[i])
       /\ ~HasPath(OpValue(fx.ops[i]), Below(options.excludes[k], fx.ops[i])))
      => /\ fx.deep[i][k].keep
         /\ fx.deep[i][k].patch = fx.ops[i]

\* C14: filtering the already filtered operation list with the same
\* patterns returns the same list with the same values.
C14_FilterIdempotent ==
  fx.pc = "refiltered" => fx.again = fx.out

\* C14 witness: the first pass pruned or dropped something and left at
\* least one operation; the second pass returned the same list.
C14_Witness ==
  /\ fx.pc = "refiltered"
  /\ fx.out # fx.ops
  /\ fx.out # <<>>
  /\ fx.again = fx.out

\* The step is a call of rollback on the instance in memory.
IsRollback == nops' # nops /\ ev'.kind = "rollback"

\* The history of the instance's document, oldest record first.
History == RecordsFor(patches, IdOf(inst.doc))

\* The step leaves the instance, the stored documents and the Change
\* Records as they are.
NothingChanges == inst' = inst /\ store' = store /\ patches' = patches

\* C15: rollback with a patch id that is not in the document's history
\* fails with UnknownPatch and leaves the document's live state, its stored
\* state and its history unchanged.
C15_UnknownIdRejected ==
  [][(IsRollback /\ \A i \in 1..Len(History) : History[i]._id # ev'.patchId)
       => ev'.error = "UnknownPatch" /\ NothingChanges]_vars

\* C15 witness: a document with a history was rolled back to an id its
\* history does not hold, and the call was rejected.
C15_Witness ==
  /\ ev.kind = "rollback"
  /\ ev.error = "UnknownPatch"
  /\ RecordsFor(patches, ev.ref) # <<>>
  /\ \A i \in 1..Len(patches) : patches[i].ref = ev.ref =>
                                  patches[i]._id # ev.patchId

RECURSIVE OpsOf(_)
OpsOf(recs) == IF recs = <<>> THEN <<>> ELSE Head(recs).ops \o OpsOf(Tail(recs))

\* The records of the history up to and including the one with the id.
UpTo(recs, patchId) ==
  SubSeq(recs, 1, CHOOSE i \in 1..Len(recs) : recs[i]._id = patchId)

\* The step is a rollback to a record other than the latest that went on
\* to set the document.
RollsBack ==
  /\ IsRollback
  /\ ev'.error \in {"none", "SaveError"}
  /\ \E i \in 1..(Len(History) - 1) : History[i]._id = ev'.patchId

\* The state the records up to the target reconstruct on an empty structure.
Reconstructed == applyPatch(EmptyObj, OpsOf(UpTo(History, ev'.patchId))).doc

\* C17: rollback to a record other than the latest, with no overrides,
\* makes the document's data view equal to the operations of the records up
\* to it applied in order onto an empty structure.
C17_DataViewIsReconstructed ==
  [][(RollsBack /\ ev'.data = EmptyObj)
       => /\ compare(Reconstructed, data(inst'.doc)) = <<>>
          /\ compare(data(inst'.doc), Reconstructed) = <<>>]_vars

\* C18: for every key present both in the overrides and in the
\* reconstructed state, the document's live state after rollback holds the
\* override's value.
C18_OverridesWin ==
  [][RollsBack
       => \A i \in 1..Len(ev'.data.v) :
            HasOwn(Reconstructed, ev'.data.v[i][1])
              => Lookup(inst'.doc, ev'.data.v[i][1]) = ev'.data.v[i][2]]_vars

\* The step is a successful rollback with persist true.
RollsBackAndSaves == RollsBack /\ ev'.save /\ ev'.error = "none"

\* The diff, after exclusion, from the pre-rollback snapshot to the
\* document's data view after the rollback.
RollbackDiff == DiffOf(inst._original, data(inst'.doc))

\* The rollback left the document's data view equal to the reconstructed
\* state.
Restored ==
  /\ compare(Reconstructed, data(inst'.doc)) = <<>>
  /\ compare(data(inst'.doc), Reconstructed) = <<>>

\* C19 as stated, for the rollbacks that restore the reconstructed state: a
\* successful rollback with persist true adds exactly one Change Record,
\* whose ops are the diff from the pre-rollback snapshot to the rolled-back
\* state, and keeps every earlier record unchanged.
C19_RollbackAddsOneRecord ==
  [][(RollsBackAndSaves /\ Restored)
       => /\ Len(patches') = Len(patches) + 1
          /\ SubSeq(patches', 1, Len(patches)) = patches
          /\ patches'[Len(patches')].ref = IdOf(inst.doc)
          /\ patches'[Len(patches')].ops = RollbackDiff]_vars

\* C19: a successful rollback with persist true keeps every earlier record
\* unchanged and adds one Change Record, with the diff as its ops, exactly
\* when the diff leaves an operation after exclusion; else it adds none.
C19_RollbackAddsRecordOfDiff ==
  [][RollsBackAndSaves
       => IF RollbackDiff = <<>>
            THEN patches' = patches
            ELSE /\ Len(patches') = Len(patches) + 1
                 /\ SubSeq(patches', 1, Len(patches)) = patches
                 /\ patches'[Len(patches')].ref = IdOf(inst.doc)
                 /\ patches'[Len(patches')].ops = RollbackDiff]_vars

\* C19 witness: a rollback was saved and added a record to a history of
\* two records.
C19_Witness ==
  /\ ev.kind = "rollback"
  /\ ev.save
  /\ ev.error = "none"
  /\ Len(ev.added) = 1
  /\ Len(RecordsFor(patches, ev.ref)) = 3
  /\ ev.after # ev.before

\* C20: a successful rollback with persist false leaves the stored
\* documents and the Change Records as they were.
C20_NoPersistKeepsStore ==
  [][(RollsBack /\ ~ev'.save /\ ev'.error = "none")
       => store' = store /\ patches' = patches]_vars

\* C20 witness: a rollback without persist changed the document in memory.
C20_Witness ==
  /\ ev.kind = "rollback"
  /\ ~ev.save
  /\ ev.error = "none"
  /\ inst.doc # ev.live
  /\ ev.after = ev.before
  /\ ev.added = <<>>

\* The step is a document deleteOne or a findOneAndDelete.
IsDelete == nops' # nops /\ ev'.kind \in {"deleteOne", "findOneAndDelete"}

\* The identities of the documents the step deletes.
DeletedIds ==
  {IdOf(store[i]) : i \in 1..Len(store)}
    \ {IdOf(store'[i]) : i \in 1..Len(store')}

\* C21: with removePatches enabled, after a document is deleted through
\* document deleteOne or findOneAndDelete, no Change Record whose ref is the
\* deleted document's identity remains.
C21_DeletePurgesRecords ==
  [][(IsDelete /\ options.removePatches)
       => \A id \in DeletedIds : RecordsFor(patches', id) = <<>>]_vars

\* C22: a delete removes no Change Record whose ref differs from the
\* identity of the document deleted, and none at all when removePatches is
\* false.
C22_DeleteKeepsOtherRecords ==
  [][IsDelete
       => /\ \A i \in 1..Len(patches) :
               patches[i].ref \notin DeletedIds
                 => \E j \in 1..Len(patches') : patches'[j] = patches[i]
          /\ ~options.removePatches => patches' = patches]_vars

\* C29: every existing Change Record is kept as it is by every step, except
\* the records of a document that the step deletes with removePatches
\* enabled.
C29_HistoryAppendOnly ==
  [][\A i \in 1..Len(patches) :
       \/ \E j \in 1..Len(patches') : patches'[j] = patches[i]
       \/ /\ IsDelete
          /\ options.removePatches
          /\ patches[i].ref \in DeletedIds]_vars

\* Two values are the same JSON value: the same keys with the same values,
\* whatever the order of the keys; the same elements in the same order.
RECURSIVE SameValue(_, _)
SameValue(x, y) ==
  IF x.t # y.t THEN FALSE
  ELSE IF IsObj(x)
    THEN /\ Len(x.v) = Len(y.v)
         /\ \A i \in 1..Len(x.v) :
              /\ HasOwn(y, x.v[i][1])
              /\ SameValue(x.v[i][2], Lookup(y, x.v[i][1]))
  ELSE IF IsArr(x)
    THEN /\ Len(x.v) = Len(y.v)
         /\ \A i \in 1..Len(x.v) : SameValue(x.v[i], y.v[i])
  ELSE x.v = y.v

\* C30: applying to A the operations the diff produces for (A, B), in
\* order, yields B.
C30_PatchOfDiffYieldsTarget ==
  dx.pc = "patched" => dx.ok /\ SameValue(dx.doc, dx.b)

\* C30 witness: a diff that removes two array elements, replaces a value
\* and adds a key was applied.
C30_Witness ==
  /\ dx.pc = "patched"
  /\ SameValue(dx.doc, dx.b)
  /\ Len(SelectSeq(dx.ops, LAMBDA o : o.op = "remove" /\ Len(o.path) = 4)) >= 2
  /\ \E i \in 1..Len(dx.ops) : dx.ops[i].op = "replace"
  /\ \E i \in 1..Len(dx.ops) : dx.ops[i].op = "add"

\* The prior snapshot of the document `id` for the operation the event
\* describes: the instance's snapshot for a save, the stored document's
\* data view before a conditional update; undefined when the document did
\* not exist before.
PriorSnapshot(id) ==
  IF ev.kind = "save" THEN ev.original
  ELSE IF InStore(ev.before, id) THEN ViewOf(ev.before, id)
  ELSE Undefined

\* C24: with original-value tracking enabled, every operation of every
\* Change Record carries originalValue equal to the value at the
\* operation's path in the prior snapshot of the same document, absent when
\* the document did not exist before or the path is not in that snapshot.
C24_OriginalValueFromPrior ==
  (options.trackOriginalValue /\ ev.kind \in UpdateKinds \cup {"save"})
  => \A i \in 1..Len(ev.added) : \A j \in 1..Len(ev.added[i].ops) :
       ev.added[i].ops[j].originalValue
         = ValueAt(PriorSnapshot(ev.added[i].ref), SegsOf(ev.added[i].ops[j]))

\* C23: after a transaction aborts, the Change Records are those from
\* before the transaction; after it commits, the records added under it
\* are present.
C23_RecordsFollowTransaction ==
  [][(session.active /\ ~session'.active)
       => IF session'.outcome = "aborted"
            THEN patches' = session.patches
            ELSE patches' = patches]_vars

\* A save whose write of the document was rejected.
SaveWriteFails == nops' # nops /\ ev'.kind = "save" /\ ev'.stage = "write"

\* The save repeated after its write was rejected.
SaveRetried == nops' # nops /\ ev'.kind = "save" /\ ev'.stage = "retry"

\* C25: a save whose store write fails leaves no Change Record of that save
\* and leaves the prior snapshot unchanged, and the save repeated with
\* success records the change exactly once.
C25_SaveFailsAtomically ==
  [][/\ SaveWriteFails
          => patches' = patches /\ inst'._original = inst._original
     /\ SaveRetried
          => Len(ev.added) + Len(ev'.added) =
               IF DiffOf(ev'.original, ev'.current) = <<>> THEN 0 ELSE 1]_vars

\* C26: when the insert of the Change Record of one affected document fails
\* in the after-step of an updateMany, no Change Record of that updateMany
\* remains.
C26_BatchRecordingAllOrNothing ==
  [][(q.pc = "applied" /\ ev'.kind = "updateMany" /\ ev'.stage = "insert")
       => patches' = patches]_vars

\* C27: a store failure during capture-before, capture-after or the insert
\* of a record makes the call fail with that same error, and a run whose
\* capture step found no document reports no error.
C27_StoreFailurePropagates ==
  /\ ev.stage \in {"before", "after", "insert"}
       => ev.error = ev.fault /\ ~ev.ok
  /\ (ev.kind \in UpdateKinds /\ ev.stage = "none" /\ ev.ids = <<>>)
       => ev.error = "none" /\ ev.ok

\* C27 witness: the insert of a record of an updateMany was rejected after
\* the update had changed the store, and the call failed with that error.
C27_Witness ==
  /\ ev.kind = "updateMany"
  /\ ev.stage = "insert"
  /\ ev.after # ev.before
  /\ ev.error = "MongoServerError"

\* What capture-before retains of the store as it is before the update.
CaptureRetained ==
  IF q.kind = "updateMany"
    THEN /\ q._originalIds = [i \in 1..Len(find(store, q._conditions)) |->
                                IdOf(find(store, q._conditions)[i])]
         /\ q._originals = [i \in 1..Len(find(store, q._conditions)) |->
                              toJSON(data(find(store, q._conditions)[i]))]
    ELSE IF findOne(store, q._conditions) = Undefined
      THEN q._originalId = Undefined
      ELSE /\ q._originalId = Lookup(findOne(store, q._conditions), "_id")
           /\ q._original = toJSON(data(findOne(store, q._conditions)))

\* The store holds the outcome of the update of the run.
MutationCompleted ==
  store = executeUpdate(q.before, q,
                        IF q.upserted # 0 THEN q.upserted ELSE nextId)

C31_OperationsWellFormed ==
  dx.pc = "copied" =>
    \A j \in 1..Len(dx.recorded) :
      /\ dx.recorded[j].op \in {"add", "remove", "replace"}
      /\ ("value" \in DOMAIN dx.recorded[j])
           = (dx.recorded[j].op \in {"add", "replace"})
      /\ "from" \notin DOMAIN dx.recorded[j]

\* C31 witness: operations of all three kinds were recorded for one
\* difference, the removal of an array element among them.
C31_Witness ==
  /\ dx.pc = "copied"
  /\ \E j \in 1..Len(dx.recorded) :
       dx.recorded[j].op = "remove" /\ Len(dx.recorded[j].path) = 4
  /\ \E j \in 1..Len(dx.recorded) : dx.recorded[j].op = "replace"
  /\ \E j \in 1..Len(dx.recorded) : dx.recorded[j].op = "add"

\* A helper was applied and has returned.
Returned(fn) == px.pc = "output" /\ px.fn = fn

\* A segment that names an array index: a non-negative integer.
IsArrayIndex(segment) == segment \in SeqRange(IndexStr)

\* C33: isPathContained(pattern, concrete) is true exactly when at every
\* position of the pattern the concrete path has a segment that equals the
\* pattern's, or the pattern's is the wildcard and the concrete one is a
\* non-negative integer; so it is false for a longer pattern and for an
\* empty or non-integer segment at a wildcard.
C33_PathContainedBySegments ==
  Returned("isPathContained") =>
    px.out = (\A i \in 1..Len(px.a) :
                /\ i <= Len(px.b)
                /\ \/ px.a[i] = px.b[i]
                   \/ px.a[i] = ARRAY_INDEX_WILDCARD /\ IsArrayIndex(px.b[i]))

\* The segments of a path written '/s1/.../sn', none for the root '/'.
RECURSIVE SegmentsOf(_)
SegmentsOf(path) ==
  IF Len(path) <= 1 THEN <<>>
  ELSE <<path[2]>> \o SegmentsOf(Tail(Tail(path)))

\* The path is written '/s1/.../sn' with segments that are not empty.
RECURSIVE Segmented(_)
Segmented(path) ==
  /\ Len(path) >= 2
  /\ path[1] = "/"
  /\ path[2] # "/"
  /\ Len(path) = 2 \/ Segmented(Tail(Tail(path)))

WellFormedPath(path) == path = <<"/">> \/ Segmented(path)

\* C34: getArrayFromPath maps '/' to the empty segment sequence and
\* '/s1/.../sn' to the sequence of s1 to sn.
C34_RootPathIsEmptySequence ==
  (Returned("getArrayFromPath") /\ WellFormedPath(px.a))
    => px.out = SegmentsOf(px.a)

\* The direct field assignments of an update: its $set part when it has
\* one, else its keys that are not operators.
Assignments(update) ==
  IF update = Undefined THEN <<>>
  ELSE IF Lookup(update, "$set") # Undefined
    THEN PairsOf(Lookup(update, "$set"))
  ELSE SelectSeq(PairsOf(update), LAMBDA p : p[1] \notin DollarKeys)

\* The operator keys of an update expression.
UpdateOperators == {"$set", "$push"}

\* C35: the merged conditions hold no update-operator key, hold every
\* directly assigned field with its assigned value, and keep every original
\* match condition the update does not assign.
C35_MergedConditions ==
  Returned("mergeQueryConditionsWithUpdate") =>
    /\ \A k \in UpdateOperators : ~HasOwn(px.out, k)
    /\ \A i \in 1..Len(Assignments(px.b)) :
         Lookup(px.out, Assignments(px.b)[i][1]) = Assignments(px.b)[i][2]
    /\ \A i \in 1..Len(px.a.v) :
         (\A j \in 1..Len(Assignments(px.b)) :
            Assignments(px.b)[j][1] # px.a.v[i][1])
           => Lookup(px.out, px.a.v[i][1]) = px.a.v[i][2]


\* C36: for every operation list and every set of exclude patterns, also
\* patterns with an empty segment and operations whose value is a scalar or
\* absent, the exclusion filter returns a list and raises no error.
C36_FilterNeverRaises ==
  fx.pc \in {"filtered", "refiltered"} => fx.error = "none"


----------------------------------------------------------------------------
(* The dates of one document's Change Records                              *)

\* The clock counts instants from 1; 0 stands for a timestamp field that is
\* undefined. Every call happens at a later instant than the one before.
MaxTime == 5

\* Faulty variant of recordDate: always the current time.
recordDateNow(updatedAt, createdAt, now) == now

\* date: docWithTimestamps.updatedAt || docWithTimestamps.createdAt ||
\* new Date() of createPatch.
recordDate(updatedAt, createdAt, now) ==
  IF updatedAt # 0 THEN updatedAt
  ELSE IF createdAt # 0 THEN createdAt
  ELSE now

\* The Change Record createPatch writes for the document as it is at
\* instant `now`, with what the document's fields were at that time.
Recorded(by, updatedAt, createdAt, now) ==
  [by |-> by, date |-> recordDate(updatedAt, createdAt, now),
   updatedAt |-> updatedAt, createdAt |-> createdAt, at |-> now]

\* A schema with or without the timestamps option, and a document not yet
\* saved.
InitDate ==
  /\ options = ResolvedOptions(<<>>, TRUE)
  /\ store = <<>>
  /\ patches = <<>>
  /\ nextId = 1
  /\ nextPatchId = 1
  /\ inst = NoInstance
  /\ q = IdleQuery
  /\ ev = NoEvent
  /\ nops = 0
  /\ fx = NoFilter
  /\ dx = NoDiff
  /\ session = NoSession
  /\ px = NoHelper
  /\ peer = IdleQuery
  /\ \E timestamps \in BOOLEAN :
       tl = [NoTimeline EXCEPT !.pc = "new", !.timestamps = timestamps]

\* document.save({ timestamps }) of a document with changed data. Mongoose's
\* own pre-save hook runs before the plug-in's: on a schema with timestamps
\* and unless the call opts out, it sets createdAt of a new document and
\* updatedAt. The plug-in's pre-save hook then records the change.
TimedSave ==
  \E dt \in 1..2, timestamps \in BOOLEAN :
    /\ tl.pc \in {"new", "stored"}
    /\ tl.now + dt <= MaxTime
    /\ LET now == tl.now + dt
           stamped == tl.timestamps /\ timestamps
           createdAt == IF stamped /\ tl.pc = "new" THEN now ELSE tl.createdAt
           updatedAt == IF stamped THEN now ELSE tl.updatedAt
       IN tl' = [tl EXCEPT
                   !.pc = "stored", !.now = now,
                   !.createdAt = createdAt, !.updatedAt = updatedAt,
                   !.records = Append(tl.records,
                                 Recorded("save", updatedAt, createdAt, now))]
    /\ UNCHANGED <<options, store, patches, nextId, nextPatchId, inst, q, ev,
                   nops, fx, dx, session, px, peer>>

\* Model.updateOne(conditions, update, { timestamps }) on the stored
\* document, changing its data: on a schema with timestamps and unless the
\* call opts out the store sets updatedAt; the post hook reads the document
\* back and records the change.
TimedUpdate ==
  \E dt \in 1..2, timestamps \in BOOLEAN :
    /\ tl.pc = "stored"
    /\ tl.now + dt <= MaxTime
    /\ LET now == tl.now + dt
           updatedAt == IF tl.timestamps /\ timestamps
                          THEN now ELSE tl.updatedAt
       IN tl' = [tl EXCEPT
                   !.now = now, !.updatedAt = updatedAt,
                   !.records = Append(tl.records,
                                 Recorded("update", updatedAt, tl.createdAt,
                                          now))]
    /\ UNCHANGED <<options, store, patches, nextId, nextPatchId, inst, q, ev,
                   nops, fx, dx, session, px, peer>>

NextDate == TimedSave \/ TimedUpdate

SpecDate == InitDate /\ [][NextDate]_vars

\* C32: the date of every Change Record, made by save or by a conditional
\* update, is the document's updatedAt at recording time, its createdAt when
\* it has no updatedAt, and the current time when it has neither.
C32_RecordDateFollowsTimestamps ==
  \A i \in 1..Len(tl.records) :
    LET r == tl.records[i]
    IN /\ r.updatedAt # 0 => r.date = r.updatedAt
       /\ (r.updatedAt = 0 /\ r.createdAt # 0) => r.date = r.createdAt
       /\ (r.updatedAt = 0 /\ r.createdAt = 0) => r.date = r.at

\* C32 witness: a save recorded at the current time for want of timestamps,
\* and a later update recorded with an updatedAt older than the current
\* time.
C32_Witness ==
  /\ \E i \in 1..Len(tl.records) :
       /\ tl.records[i].by = "save"
       /\ tl.records[i].updatedAt = 0
       /\ tl.records[i].date = tl.records[i].at
  /\ \E j \in 1..Len(tl.records) :
       /\ tl.records[j].by = "update"
       /\ tl.records[j].updatedAt # 0
       /\ tl.records[j].date # tl.records[j].at

\* C38: within one document's Change Records the dates follow the creation
\* order: no two records have the same date and a later record never has an
\* earlier date, also after updates that leave updatedAt as it was.
C38_DatesFollowCreationOrder ==
  \A i \in 1..Len(tl.records) : \A j \in 1..Len(tl.records) :
    i < j => tl.records[i].date < tl.records[j].date


----------------------------------------------------------------------------
(* Rollback of a document with a longer history                            *)

\* The stored document and the Change Records after a loaded instance of
\* the document is changed by `update` and saved.
Saved(doc, pats, update, opts) ==
  [doc |-> writeModified(doc, applyUpdate(doc, update), modifiedPaths(update)),
   patches |-> createPatch(pats, Len(pats) + 1, IdOf(doc), snapshot(doc),
                           data(applyUpdate(doc, update)), opts)]

\* One document that was created and then changed and saved twice, with
\* the Change Records the plug-in made on the way; the instance is loaded
\* or not.
InitHistory ==
  /\ options \in Configs
  /\ \E view \in Views, u1 \in Updates, u2 \in Updates, loaded \in BOOLEAN :
       LET created == MkDoc(1, view)
           first == Saved(created,
                          createdPatches(<<created>>, <<>>, options),
                          u1, options)
           second == Saved(first.doc, first.patches, u2, options)
       IN /\ store = <<second.doc>>
          /\ patches = second.patches
          /\ inst = IF loaded
                      THEN [doc |-> second.doc,
                            _original |-> snapshot(second.doc)]
                      ELSE NoInstance
  /\ nextId = 2
  /\ nextPatchId = Len(patches) + 1
  /\ q = IdleQuery
  /\ ev = NoEvent
  /\ nops = 0
  /\ fx = NoFilter
  /\ dx = NoDiff
  /\ session = NoSession
  /\ px = NoHelper
  /\ tl = NoTimeline
  /\ peer = IdleQuery

SpecReplay == InitHistory /\ [][NextRollback]_vars

\* The records applied one after another onto an empty structure, as far as
\* they can be applied.
Replay(recs) ==
  LET step[n \in 0..Len(recs)] ==
        IF n = 0 THEN Applied(EmptyObj)
        ELSE IF step[n - 1].ok
          THEN applyPatch(step[n - 1].doc, recs[n].ops)
          ELSE Failed
  IN step[Len(recs)]

\* The step is a rollback to a record other than the latest whose history
\* prefix cannot be replayed.
ReplayFails ==
  /\ IsRollback
  /\ \E i \in 1..(Len(History) - 1) : History[i]._id = ev'.patchId
  /\ ~Replay(UpTo(History, ev'.patchId)).ok

\* C37: when replaying the history prefix fails during rollback, rollback
\* rejects, the document's live state stays as it was before the call and
\* no Change Record is added.
C37_FailedReplayRejects ==
  [][ReplayFails
       => /\ ~ev'.ok
          /\ ev'.error = "PatchError"
          /\ NothingChanges]_vars

\* C37 witness: a rollback to a record of a history of at least three
\* records was rejected because the prefix could not be replayed.
C37_Witness ==
  /\ ev.kind = "rollback"
  /\ ev.error = "PatchError"
  /\ Len(RecordsFor(patches, ev.ref)) >= 3
  /\ \E i \in 1..Len(patches) :
       patches[i].ref = ev.ref /\ patches[i]._id = ev.patchId


\* Tracked mutations run one at a time: saves of new and loaded documents,
\* conditional updates and rollbacks; nothing is deleted.
NextMutations ==
  \/ CreateStep
  \/ LoadStep
  \/ SaveStep
  \/ UpdateStep
  \/ ExecuteStep
  \/ PostStep
  \/ RollbackStep

SpecMutations == Init /\ [][NextMutations]_vars

\* C39: with no exclude patterns, after any sequence of tracked mutations
\* run one at a time, all Change Records of a stored document applied in
\* creation order onto an empty structure yield the document's current
\* stored data view.
C39_HistoryReplaysToStoredView ==
  (Idle /\ options.excludes = <<>>) =>
    \A i \in 1..Len(store) :
      /\ Replay(RecordsFor(patches, IdOf(store[i]))).ok
      /\ SameValue(Replay(RecordsFor(patches, IdOf(store[i]))).doc,
                   ViewOf(store, IdOf(store[i])))


----------------------------------------------------------------------------
(* Two conditional updates of one document whose runs interleave           *)

\* Another caller's updateOne reaches its pre hook while the first update
\* is between its capture-before and its capture-after step, and captures
\* the same document.
PeerStart ==
  \E c \in Conditions, u \in Updates :
    /\ peer.pc = "idle"
    /\ q.pc \in {"captured", "applied"}
    /\ q.kind \in SingleKinds
    /\ q._originalId # Undefined
    /\ peer' = [preUpdateOne(NewQuery("updateOne", c, u, FALSE, FALSE), store)
                EXCEPT !.pc = "captured"]
    /\ peer'._originalId = q._originalId
    /\ UNCHANGED <<options, store, patches, nextId, nextPatchId, inst, q, ev,
                   nops, fx, dx, session, px, tl>>

\* The store executes the other caller's update.
PeerExecute ==
  /\ peer.pc = "captured"
  /\ store' = executeUpdate(store, peer, nextId)
  /\ peer' = [peer EXCEPT !.pc = "applied",
                          !.result = updateResult(store, peer),
                          !.before = store,
                          !.targets = updateTargets(store, peer)]
  /\ UNCHANGED <<options, patches, nextId, nextPatchId, inst, q, ev, nops,
                 fx, dx, session, px, tl>>

\* The post hook of the other caller's update.
PeerPost ==
  /\ peer.pc = "applied"
  /\ patches' = postUpdateOne(peer, store, patches, nextPatchId, options)
  /\ nextPatchId' = nextPatchId + Len(patches') - Len(patches)
  /\ peer' = [peer EXCEPT !.pc = "done"]
  /\ UNCHANGED <<options, store, nextId, inst, q, ev, nops, fx, dx, session,
                 px, tl>>

NextRace ==
  \/ UpdateStep
  \/ ExecuteStep
  \/ PostStep
  \/ PeerStart
  \/ PeerExecute
  \/ PeerPost

SpecRace == Init /\ [][NextRace]_vars

\* Both runs are over, and each of the two updates modified the one
\* document both had captured.
BothUpdatedOneDocument ==
  /\ q.pc = "idle"
  /\ peer.pc = "done"
  /\ ev.kind \in SingleKinds
  /\ Len(ev.targets) = 1
  /\ ev.targets = peer.targets
  /\ ev.targets[1] = peer._originalId.v
  /\ ev.upserted = 0

\* C40: when the runs of two conditional updates of one document interleave
\* (both capture-before steps come before either capture-after step), the
\* two Change Records describe each change once: the document's history
\* applied in creation order onto an empty structure is its stored data
\* view.
C40_InterleavedUpdatesReplay ==
  (BothUpdatedOneDocument /\ options.excludes = <<>>) =>
    /\ Replay(RecordsFor(patches, ev.targets[1])).ok
    /\ SameValue(Replay(RecordsFor(patches, ev.targets[1])).doc,
                 ViewOf(store, ev.targets[1]))

====
